---- MODULE Spec2Model ----
(***************************************************************************)
(* Population update engine of the two-species colony scripts              *)
(* (src/scripts/contact_kill.py and src/scripts/diffusion_kill_QS.py):     *)
(* the regulation hooks init / update / divide that CellModeller calls.    *)
(*                                                                         *)
(* Numbers.  The scripts compute with floats; the model keeps exact        *)
(* integers in fixed units:                                                *)
(*   growth rates   SA_MU, PA_MU in tenths (1.8 -> 18, 0.6 -> 6);          *)
(*   volumes        in hundredths (1.0 -> 100, 3.5 -> 350);                *)
(*   factors        pa_growth_factor / inhibitor_growth_factor in tenths;  *)
(*   crowd_factor   as the numerator of (CC - n) / CC, denominator         *)
(*                  CrowdDen;                                              *)
(*   growthRate     = mu * crowd numerator * factor, i.e. the float rate   *)
(*                  times 100 * CrowdDen;                                  *)
(*   positions      integer lattice points in the script's length unit;    *)
(*   signals        whole concentration units.                             *)
(***************************************************************************)
EXTENDS Integers, Sequences, FiniteSets, TLC

-----------------------------------------------------------------------------
(* Bounds of the model *)

MaxKey == 4          \* cell ids are 1..MaxKey (divide needs two fresh ids)
MaxLifetime == 2     \* DEAD_LIFETIME is drawn from 1..MaxLifetime
MaxCoord == 3        \* lattice coordinates of the spatial scenario: -MaxCoord..MaxCoord
MaxThreshold == 2    \* the QS population thresholds are drawn from 1..MaxThreshold

-----------------------------------------------------------------------------
(* Cell type constants (diffusion_kill_QS.py:24-28; contact_kill.py uses    *)
(* the literals 0, 1, 2)                                                    *)

SA_TYPE == 0
PA_TYPE_ACTIVE == 1
DEAD_TYPE == 2
PA_TYPE_SILENT == 3
PA_TYPE_INHIB_ONLY == 4

PA_TYPES == {PA_TYPE_ACTIVE, PA_TYPE_SILENT, PA_TYPE_INHIB_ONLY}

(* Tunable parameters *)
SA_MU == 18
PA_MU == 6
DIV_LENGTH_MEAN_PA == 350
DIV_LENGTH_MEAN_SA == 100
JitterSA == {0, 15}       \* random.uniform(0.0, 0.15): both ends of the range
JitterPA == {0, 50}       \* random.uniform(0.0, 0.5)
DeadTargetVol == 300      \* diffusion_kill_QS.py init: cell.targetVol = 3.0

COL_SA == <<0, 10, 0>>
COL_PA == <<0, 0, 10>>
COL_PA_SILENT == <<0, 0, 10>>
COL_PA_INHIB_ONLY == <<10, 5, 0>>
COL_PA_ACTIVE == <<10, 0, 0>>
COL_DEAD == <<6, 6, 6>>
COL_OTHER == <<5, 5, 5>>

EFFECTIVE_RADIUS_SA == 1
EFFECTIVE_RADIUS_PA == 1
KILL_RADIUS == EFFECTIVE_RADIUS_SA + EFFECTIVE_RADIUS_PA
KILL_RADIUS_SQ == KILL_RADIUS * KILL_RADIUS
\* variant: the grid cell is one effective radius wide
GRID_SIZE_one_radius == EFFECTIVE_RADIUS_PA

GRID_SIZE == KILL_RADIUS

NEIGHBOR_OFFSETS == {<<dxg, dyg>> : dxg \in {-1, 0, 1}, dyg \in {-1, 0, 1}}

TOXIN_KILL_THRESHOLD == 1
INHIB_EFFECT_STRENGTH == 5      \* 0.5, in tenths per concentration unit
INHIB_GROWTH_COST_DEFAULT == 2  \* INHIB_GROWTH_COST = 0.2, in tenths
TOXIN_GROWTH_COST_DEFAULT == 3  \* TOXIN_GROWTH_COST = 0.3, in tenths
INHIBITOR_ON == TRUE
PRINT_EVERY == 100
QS_ON_TOXIN_DEFAULT == TRUE
QS_ON_INHIB_DEFAULT == TRUE

-----------------------------------------------------------------------------
VARIABLES
    script,            \* which script is loaded as the regulation module
    CONTACT_KILLING,   \* contact_kill.py toggle
    DIFFUSIVE_KILLING, \* diffusion_kill_QS.py toggle
    DEAD_LIFETIME,     \* steps after which a dead cell is removed
    CARRYING_CAPACITY, \* capacity of the global crowding factor
    QS_POP_THRESHOLD_INHIB,
    QS_POP_THRESHOLD_TOXIN,
    INHIB_GROWTH_COST, \* metabolic costs of production, in tenths
    TOXIN_GROWTH_COST,
    QS_ON_INHIB,       \* the channel switches of the QS scripts
    QS_ON_TOXIN,
    cells,             \* the population: cell id -> cell state
    next_id,           \* next unused cell id (host)
    STEP_COUNTER,      \* module global: number of update calls so far
    QS_ACTIVE_INHIB,   \* module globals of diffusion_kill_QS.py
    QS_ACTIVE_TOXIN,
    cells_to_remove,   \* removal list of the most recent update call
    raised             \* an update call has raised: the run is over

vars == <<script, CONTACT_KILLING, DIFFUSIVE_KILLING, DEAD_LIFETIME,
          CARRYING_CAPACITY, QS_POP_THRESHOLD_INHIB, QS_POP_THRESHOLD_TOXIN,
          INHIB_GROWTH_COST, TOXIN_GROWTH_COST, QS_ON_INHIB, QS_ON_TOXIN,
          cells, next_id, STEP_COUNTER, QS_ACTIVE_INHIB, QS_ACTIVE_TOXIN,
          cells_to_remove, raised>>

config == <<script, CONTACT_KILLING, DIFFUSIVE_KILLING, DEAD_LIFETIME,
            CARRYING_CAPACITY, QS_POP_THRESHOLD_INHIB, QS_POP_THRESHOLD_TOXIN,
            INHIB_GROWTH_COST, TOXIN_GROWTH_COST, QS_ON_INHIB, QS_ON_TOXIN>>

-----------------------------------------------------------------------------
(* Helpers *)

Max0(a) == IF a > 0 THEN a ELSE 0

Range(s) == {s[i] : i \in 1..Len(s)}

RECURSIVE sorted_keys(_)
sorted_keys(S) ==
    IF S = {} THEN <<>>
    ELSE LET m == CHOOSE k \in S : \A j \in S : k <= j
         IN  <<m>> \o sorted_keys(S \ {m})

\* dict iteration order of the population: insertion order, and the host
\* inserts cells in increasing id order
items(cs) == sorted_keys(DOMAIN cs)

Orders(S) == {o \in [1..Cardinality(S) -> S] : \A i, j \in DOMAIN o : i # j => o[i] # o[j]}

\* variant: only the first cell of the list is popped
pop_all_first(cs, rem) ==
    [k \in (DOMAIN cs) \ (IF rem = <<>> THEN {} ELSE {Head(rem)}) |-> cs[k]]

\* cells.pop(cid, None) for every cid of the list
pop_all(cs, rem) == [k \in (DOMAIN cs) \ Range(rem) |-> cs[k]]

-----------------------------------------------------------------------------
(* contact_kill.py *)

\* np.floor(x / GRID_SIZE): rounds towards minus infinity, also for x < 0
grid_index(x, y) == <<x \div GRID_SIZE, y \div GRID_SIZE>>

\* variant: the factor is not clamped at 0
crowd_factor_unclamped(n_cells) ==
    IF CARRYING_CAPACITY > 0 THEN CARRYING_CAPACITY - n_cells ELSE 1

\* numerator of max(0.0, 1.0 - float(n_cells) / CARRYING_CAPACITY); the
\* denominator is CrowdDen.  A capacity <= 0 gives the factor 1.0.
crowd_factor(n_cells) ==
    IF CARRYING_CAPACITY > 0 THEN Max0(CARRYING_CAPACITY - n_cells) ELSE 1

CrowdDen == IF CARRYING_CAPACITY > 0 THEN CARRYING_CAPACITY ELSE 1

\* a rate mu * crowd * factor in growthRate units (factor10 = 10 is factor 1.0)
Rate(mu, crowd, factor10) == mu * crowd * factor10

\* the species base rate mu itself in growthRate units
BaseRate(mu) == mu * CrowdDen * 10

\* the fields the host gives a new cell before it calls init: the cellType of
\* addCell, the geometry of the biophysics, the readings of the signalling
NewCell(ctype, pos, volume, signals) ==
    [cellType |-> ctype, pos |-> pos, volume |-> volume, signals |-> signals,
     targetVol |-> 0, growthRate |-> 0, divideFlag |-> FALSE,
     deadCounter |-> 0, color |-> COL_OTHER]

init_contact_kill(cell, jitter) ==
    LET typed ==
          IF cell.cellType = 0
          THEN [cell EXCEPT !.growthRate = BaseRate(SA_MU), !.color = COL_SA,
                            !.targetVol = DIV_LENGTH_MEAN_SA + jitter]
          ELSE IF cell.cellType = 1
          THEN [cell EXCEPT !.growthRate = BaseRate(PA_MU), !.color = COL_PA,
                            !.targetVol = DIV_LENGTH_MEAN_PA + jitter]
          ELSE [cell EXCEPT !.growthRate = 0, !.color = COL_DEAD]
    IN  [typed EXCEPT !.divideFlag = FALSE, !.deadCounter = 0]

\* variant: the removal test is n > DEAD_LIFETIME
dead_step_late(st, cid) ==
    LET c == st.cells[cid]
        n == c.deadCounter + 1
    IN  [st EXCEPT !.cells[cid] = [c EXCEPT !.growthRate = 0, !.divideFlag = FALSE,
                                            !.color = COL_DEAD, !.deadCounter = n],
                   !.cells_to_remove = IF n > DEAD_LIFETIME THEN Append(@, cid) ELSE @]

\* variant: a cell that has aged out is popped on the spot
dead_step_pop(st, cid) ==
    LET c == st.cells[cid]
        n == c.deadCounter + 1
    IN  IF n >= DEAD_LIFETIME
        THEN [st EXCEPT !.cells = [k \in (DOMAIN @) \ {cid} |-> @[k]],
                        !.cells_to_remove = Append(@, cid)]
        ELSE [st EXCEPT !.cells[cid] = [c EXCEPT !.growthRate = 0, !.divideFlag = FALSE,
                                                 !.color = COL_DEAD, !.deadCounter = n]]

\* the dead branch of every scan: zero growth, count up, schedule removal
dead_step(st, cid) ==
    LET c == st.cells[cid]
        n == c.deadCounter + 1
    IN  [st EXCEPT !.cells[cid] = [c EXCEPT !.growthRate = 0, !.divideFlag = FALSE,
                                            !.color = COL_DEAD, !.deadCounter = n],
                   !.cells_to_remove = IF n >= DEAD_LIFETIME THEN Append(@, cid) ELSE @]

\* Branch 1 (CONTACT_KILLING off), one cell of the scan
\* variant: the last branch is a plain else
no_kill_step_else(st, cid) ==
    LET c == st.cells[cid]
    IN  IF c.cellType = 2 THEN dead_step(st, cid)
        ELSE IF c.cellType = 0
        THEN [st EXCEPT !.cells[cid] =
                [c EXCEPT !.growthRate = Rate(SA_MU, st.crowd_factor, 10),
                          !.divideFlag = (c.volume > c.targetVol),
                          !.deadCounter = 0]]
        ELSE [st EXCEPT !.cells[cid] =
                [c EXCEPT !.growthRate = Rate(PA_MU, st.crowd_factor, 10),
                          !.divideFlag = (c.volume > c.targetVol),
                          !.deadCounter = 0]]

no_kill_step(st, cid) ==
    LET c == st.cells[cid]
    IN  IF c.cellType = 2 THEN dead_step(st, cid)
        ELSE IF c.cellType = 0
        THEN [st EXCEPT !.cells[cid] =
                [c EXCEPT !.growthRate = Rate(SA_MU, st.crowd_factor, 10),
                          !.divideFlag = (c.volume > c.targetVol),
                          !.deadCounter = 0]]
        ELSE IF c.cellType = 1
        THEN [st EXCEPT !.cells[cid] =
                [c EXCEPT !.growthRate = Rate(PA_MU, st.crowd_factor, 10),
                          !.divideFlag = (c.volume > c.targetVol),
                          !.deadCounter = 0]]
        ELSE st

\* pa_grid.setdefault((gx, gy), []).append((x, y, cid))
grid_add(pa_grid, g, entry) ==
    IF g \in DOMAIN pa_grid
    THEN [pa_grid EXCEPT ![g] = Append(@, entry)]
    ELSE pa_grid @@ (g :> <<entry>>)

\* the PA entries of the 3x3 grid neighbourhood of (x0, y0)
nearby_pa(pa_grid, x0, y0) ==
    LET g0 == grid_index(x0, y0)
    IN  UNION { IF <<g0[1] + off[1], g0[2] + off[2]>> \in DOMAIN pa_grid
                THEN Range(pa_grid[<<g0[1] + off[1], g0[2] + off[2]>>])
                ELSE {} : off \in NEIGHBOR_OFFSETS }

\* variant: the radius test is strict
within_kill_radius_strict(x0, y0, xp, yp) ==
    (x0 - xp) * (x0 - xp) + (y0 - yp) * (y0 - yp) < KILL_RADIUS_SQ

\* dx*dx + dy*dy <= kill_radius_sq_local
within_kill_radius(x0, y0, xp, yp) ==
    (x0 - xp) * (x0 - xp) + (y0 - yp) * (y0 - yp) <= KILL_RADIUS_SQ

\* variant: the kill branch leaves the divideFlag of the growth rule standing
sa_step_keep_flag(st, cid) ==
    LET c == st.cells[cid]
        hit == \E e \in nearby_pa(st.pa_grid, c.pos[1], c.pos[2]) :
                   within_kill_radius(c.pos[1], c.pos[2], e[1], e[2])
    IN  IF hit
        THEN [st EXCEPT !.cells[cid] =
                [c EXCEPT !.cellType = 2, !.growthRate = 0,
                          !.divideFlag = (c.volume > c.targetVol),
                          !.color = COL_DEAD, !.deadCounter = 0]]
        ELSE [st EXCEPT !.cells[cid] =
                [c EXCEPT !.growthRate = Rate(SA_MU, st.crowd_factor, 10),
                          !.divideFlag = (c.volume > c.targetVol)]]

\* variant: the kill also stops the growth of the PA cells in range
sa_step_killer_pays(st, cid) ==
    LET c == st.cells[cid]
        killers == {e[3] : e \in {e \in nearby_pa(st.pa_grid, c.pos[1], c.pos[2]) :
                                    within_kill_radius(c.pos[1], c.pos[2], e[1], e[2])}}
    IN  IF killers # {}
        THEN [st EXCEPT !.cells =
                [k \in DOMAIN @ |->
                   IF k = cid
                   THEN [c EXCEPT !.cellType = 2, !.growthRate = 0, !.divideFlag = FALSE,
                                  !.color = COL_DEAD, !.deadCounter = 0]
                   ELSE IF k \in killers THEN [@[k] EXCEPT !.growthRate = 0]
                   ELSE @[k]]]
        ELSE [st EXCEPT !.cells[cid] =
                [c EXCEPT !.growthRate = Rate(SA_MU, st.crowd_factor, 10),
                          !.divideFlag = (c.volume > c.targetVol)]]

\* Branch 2, second pass, one SA cell: the loops stop at the first PA entry in
\* range, so the cell is killed exactly when some nearby entry is in range
sa_step(st, cid) ==
    LET c == st.cells[cid]
        hit == \E e \in nearby_pa(st.pa_grid, c.pos[1], c.pos[2]) :
                   within_kill_radius(c.pos[1], c.pos[2], e[1], e[2])
    IN  IF hit
        THEN [st EXCEPT !.cells[cid] =
                [c EXCEPT !.cellType = 2, !.growthRate = 0, !.divideFlag = FALSE,
                          !.color = COL_DEAD, !.deadCounter = 0]]
        ELSE [st EXCEPT !.cells[cid] =
                [c EXCEPT !.growthRate = Rate(SA_MU, st.crowd_factor, 10),
                          !.divideFlag = (c.volume > c.targetVol)]]

\* variant: a single pass that tests each SA cell against the PA cells
\* visited so far
first_pass_step_inline(st, cid) ==
    LET c == st.cells[cid]
    IN  IF c.cellType = 1
        THEN [st EXCEPT !.pa_grid = grid_add(@, grid_index(c.pos[1], c.pos[2]),
                                             <<c.pos[1], c.pos[2], cid>>),
                        !.cells[cid] =
                            [c EXCEPT !.growthRate = Rate(PA_MU, st.crowd_factor, 10),
                                      !.divideFlag = (c.volume > c.targetVol),
                                      !.deadCounter = 0]]
        ELSE IF c.cellType = 0
        THEN sa_step([st EXCEPT !.cells[cid] = [c EXCEPT !.deadCounter = 0]], cid)
        ELSE IF c.cellType = 2 THEN dead_step(st, cid)
        ELSE st

\* Branch 2, first pass, one cell: classify, update deadCounter, schedule deletions
first_pass_step(st, cid) ==
    LET c == st.cells[cid]
    IN  IF c.cellType = 1
        THEN [st EXCEPT !.pa_grid = grid_add(@, grid_index(c.pos[1], c.pos[2]),
                                             <<c.pos[1], c.pos[2], cid>>),
                        !.cells[cid] =
                            [c EXCEPT !.growthRate = Rate(PA_MU, st.crowd_factor, 10),
                                      !.divideFlag = (c.volume > c.targetVol),
                                      !.deadCounter = 0]]
        ELSE IF c.cellType = 0
        THEN [st EXCEPT !.sa_ids = Append(@, cid),
                        !.cells[cid] = [c EXCEPT !.deadCounter = 0]]
        ELSE IF c.cellType = 2 THEN dead_step(st, cid)
        ELSE st

RECURSIVE no_kill_scan(_, _)
no_kill_scan(st, order) ==
    IF order = <<>> THEN st ELSE no_kill_scan(no_kill_step(st, Head(order)), Tail(order))

RECURSIVE first_pass(_, _)
first_pass(st, order) ==
    IF order = <<>> THEN st ELSE first_pass(first_pass_step(st, Head(order)), Tail(order))

RECURSIVE second_pass(_, _)
second_pass(st, ids) ==
    IF ids = <<>> THEN st ELSE second_pass(sa_step(st, Head(ids)), Tail(ids))

\* variant: the crowding factor counts the living cells only
scan_start_live(cs) ==
    [cells |-> cs, cells_to_remove |-> <<>>, pa_grid |-> <<>>, sa_ids |-> <<>>,
     crowd_factor |-> crowd_factor(Cardinality({k \in DOMAIN cs : cs[k].cellType # 2}))]

\* the locals of one update call before the scan
scan_start(cs) ==
    [cells |-> cs, cells_to_remove |-> <<>>, pa_grid |-> <<>>, sa_ids |-> <<>>,
     crowd_factor |-> crowd_factor(Cardinality(DOMAIN cs))]

\* update(cells) of contact_kill.py with the cells visited in the given order;
\* the result is the population after the removals and the removal list
update_contact_kill(cs, order) ==
    LET both_passes(p1) == second_pass(p1, p1.sa_ids)
        finish(scanned) ==
          [cells |-> pop_all(scanned.cells, scanned.cells_to_remove),
           cells_to_remove |-> scanned.cells_to_remove]
    IN  finish(IF ~CONTACT_KILLING
               THEN no_kill_scan(scan_start(cs), order)
               ELSE both_passes(first_pass(scan_start(cs), order)))

\* variant: the daughters keep the growthRate of the copy of the parent
divide_contact_kill_inherit(parent, d1, d2, jitter1, jitter2) ==
    LET ptype == parent.cellType
        typed(d, jitter) ==
          IF ptype = 0
          THEN [d EXCEPT !.cellType = ptype, !.color = COL_SA,
                         !.targetVol = DIV_LENGTH_MEAN_SA + jitter]
          ELSE IF ptype = 1
          THEN [d EXCEPT !.cellType = ptype, !.color = COL_PA,
                         !.targetVol = DIV_LENGTH_MEAN_PA + jitter]
          ELSE [d EXCEPT !.cellType = ptype]
        reset(d) == [d EXCEPT !.divideFlag = FALSE, !.deadCounter = 0]
    IN  <<reset(typed(d1, jitter1)), reset(typed(d2, jitter2))>>

divide_contact_kill(parent, d1, d2, jitter1, jitter2) ==
    LET ptype == parent.cellType
        typed(d, jitter) ==
          IF ptype = 0
          THEN [d EXCEPT !.cellType = ptype, !.color = COL_SA,
                         !.growthRate = BaseRate(SA_MU),
                         !.targetVol = DIV_LENGTH_MEAN_SA + jitter]
          ELSE IF ptype = 1
          THEN [d EXCEPT !.cellType = ptype, !.color = COL_PA,
                         !.growthRate = BaseRate(PA_MU),
                         !.targetVol = DIV_LENGTH_MEAN_PA + jitter]
          ELSE [d EXCEPT !.cellType = ptype]
        reset(d) == [d EXCEPT !.divideFlag = FALSE, !.deadCounter = 0]
    IN  <<reset(typed(d1, jitter1)), reset(typed(d2, jitter2))>>

-----------------------------------------------------------------------------
(* diffusion_kill_QS.py *)

\* the signals of a cell when no reaction-diffusion subsystem is attached:
\* c.signals[0] and c.signals[1] have nothing to read
NoReading == <<>>

\* variant: the factor is not floored at zero
inhibitor_growth_factor_unfloored(inh_conc, qs_active_inhib) ==
    IF ~INHIBITOR_ON \/ ~qs_active_inhib THEN 10
    ELSE 10 - INHIB_EFFECT_STRENGTH * inh_conc

\* in tenths; gated on INHIBITOR_ON and on the QS_ACTIVE_INHIB global
inhibitor_growth_factor(inh_conc, qs_active_inhib) ==
    IF ~INHIBITOR_ON \/ ~qs_active_inhib THEN 10
    ELSE Max0(10 - INHIB_EFFECT_STRENGTH * inh_conc)

\* variant: the cost is not floored at zero
pa_growth_factor_unfloored(ctype) ==
    IF ctype = PA_TYPE_SILENT THEN 10
    ELSE IF ctype = PA_TYPE_INHIB_ONLY THEN 10 - INHIB_GROWTH_COST
    ELSE IF ctype = PA_TYPE_ACTIVE THEN 10 - INHIB_GROWTH_COST - TOXIN_GROWTH_COST
    ELSE 10

\* in tenths
pa_growth_factor(ctype) ==
    IF ctype = PA_TYPE_SILENT THEN 10
    ELSE IF ctype = PA_TYPE_INHIB_ONLY THEN Max0(10 - INHIB_GROWTH_COST)
    ELSE IF ctype = PA_TYPE_ACTIVE THEN Max0(10 - INHIB_GROWTH_COST - TOXIN_GROWTH_COST)
    ELSE 10

\* COLOR_BY_INHIBITOR = True, COLOR_BY_TOXIN = False
cell_color(cell, qs_active_inhib) ==
    LET ctype == cell.cellType
        base == IF ctype = SA_TYPE THEN COL_SA
                ELSE IF ctype = PA_TYPE_ACTIVE THEN COL_PA_ACTIVE
                ELSE IF ctype = PA_TYPE_INHIB_ONLY THEN COL_PA_INHIB_ONLY
                ELSE IF ctype = PA_TYPE_SILENT THEN COL_PA_SILENT
                ELSE COL_OTHER
    IN  IF ctype = DEAD_TYPE THEN COL_DEAD
        ELSE IF ctype = SA_TYPE /\ qs_active_inhib
        THEN <<10 - inhibitor_growth_factor(IF INHIBITOR_ON THEN cell.signals[2] ELSE 0,
                                            qs_active_inhib), 10, 0>>
        ELSE base

init_QS(cell, jitter, qs_active_inhib) ==
    LET typed ==
          IF cell.cellType = SA_TYPE
          THEN [cell EXCEPT !.growthRate = BaseRate(SA_MU), !.color = COL_SA,
                            !.targetVol = DIV_LENGTH_MEAN_SA + jitter]
          ELSE IF cell.cellType \in PA_TYPES
          THEN [cell EXCEPT !.growthRate = BaseRate(PA_MU),
                            !.color = cell_color(cell, qs_active_inhib),
                            !.targetVol = DIV_LENGTH_MEAN_PA + jitter]
          ELSE [cell EXCEPT !.growthRate = 0, !.color = COL_DEAD,
                            !.targetVol = DeadTargetVol]
    IN  [typed EXCEPT !.divideFlag = FALSE, !.deadCounter = 0]

\* n_pa = sum(1 for c in cells.values() if c.cellType in (...))
count_pa(cs) == Cardinality({k \in DOMAIN cs : cs[k].cellType \in PA_TYPES})

\* variant: every PA cell becomes inhibitor-only
promote_inhib_all(cs) ==
    [k \in DOMAIN cs |->
        IF cs[k].cellType \in PA_TYPES
        THEN [cs[k] EXCEPT !.cellType = PA_TYPE_INHIB_ONLY] ELSE cs[k]]

\* Silent PA become inhibitor-only
promote_inhib(cs) ==
    [k \in DOMAIN cs |->
        IF cs[k].cellType = PA_TYPE_SILENT
        THEN [cs[k] EXCEPT !.cellType = PA_TYPE_INHIB_ONLY] ELSE cs[k]]

\* variant: every cell that is not SA becomes toxin-active
promote_toxin_all(cs) ==
    [k \in DOMAIN cs |->
        IF cs[k].cellType # SA_TYPE
        THEN [cs[k] EXCEPT !.cellType = PA_TYPE_ACTIVE] ELSE cs[k]]

\* variant: only the silent PA cells become toxin-active
promote_toxin_silent_only(cs) ==
    [k \in DOMAIN cs |->
        IF cs[k].cellType = PA_TYPE_SILENT
        THEN [cs[k] EXCEPT !.cellType = PA_TYPE_ACTIVE] ELSE cs[k]]

\* Any remaining silent or inhib-only PA become fully toxin-active
promote_toxin(cs) ==
    [k \in DOMAIN cs |->
        IF cs[k].cellType \in {PA_TYPE_SILENT, PA_TYPE_INHIB_ONLY}
        THEN [cs[k] EXCEPT !.cellType = PA_TYPE_ACTIVE] ELSE cs[k]]

\* variant: the globals hold the outcome of this call's threshold tests
qs_activation_reassign(cs, qs_inhib, qs_toxin) ==
    LET n_pa == count_pa(cs)
        fire_i == QS_ON_INHIB /\ ~qs_inhib /\ n_pa >= QS_POP_THRESHOLD_INHIB
        fire_t == QS_ON_TOXIN /\ ~qs_toxin /\ n_pa >= QS_POP_THRESHOLD_TOXIN
        toxin_step(cs1) == IF fire_t THEN promote_toxin(cs1) ELSE cs1
    IN  [cells |-> toxin_step(IF fire_i THEN promote_inhib(cs) ELSE cs),
         qs_inhib |-> fire_i, qs_toxin |-> fire_t]

\* variant: the channel switches are not read
qs_activation_always_on(cs, qs_inhib, qs_toxin) ==
    LET n_pa == count_pa(cs)
        fire_i == ~qs_inhib /\ n_pa >= QS_POP_THRESHOLD_INHIB
        fire_t == ~qs_toxin /\ n_pa >= QS_POP_THRESHOLD_TOXIN
        toxin_step(cs1) == IF fire_t THEN promote_toxin(cs1) ELSE cs1
    IN  [cells |-> toxin_step(IF fire_i THEN promote_inhib(cs) ELSE cs),
         qs_inhib |-> (qs_inhib \/ fire_i), qs_toxin |-> (qs_toxin \/ fire_t)]

\* variant: the threshold tests are strict
qs_activation_strict(cs, qs_inhib, qs_toxin) ==
    LET n_pa == count_pa(cs)
        fire_i == QS_ON_INHIB /\ ~qs_inhib /\ n_pa > QS_POP_THRESHOLD_INHIB
        fire_t == QS_ON_TOXIN /\ ~qs_toxin /\ n_pa > QS_POP_THRESHOLD_TOXIN
        toxin_step(cs1) == IF fire_t THEN promote_toxin(cs1) ELSE cs1
    IN  [cells |-> toxin_step(IF fire_i THEN promote_inhib(cs) ELSE cs),
         qs_inhib |-> (qs_inhib \/ fire_i), qs_toxin |-> (qs_toxin \/ fire_t)]

\* QS activation of production: the two threshold tests of one update call, on
\* the n_pa counted at the start of the call
qs_activation(cs, qs_inhib, qs_toxin) ==
    LET n_pa == count_pa(cs)
        fire_i == QS_ON_INHIB /\ ~qs_inhib /\ n_pa >= QS_POP_THRESHOLD_INHIB
        fire_t == QS_ON_TOXIN /\ ~qs_toxin /\ n_pa >= QS_POP_THRESHOLD_TOXIN
        toxin_step(cs1) == IF fire_t THEN promote_toxin(cs1) ELSE cs1
    IN  [cells |-> toxin_step(IF fire_i THEN promote_inhib(cs) ELSE cs),
         qs_inhib |-> (qs_inhib \/ fire_i), qs_toxin |-> (qs_toxin \/ fire_t)]

\* SA cell that is not killed in this call
\* variant: a cell at its target volume is told to divide
qs_sa_alive_geq(c, st) ==
    [c EXCEPT !.growthRate =
                 Rate(SA_MU, st.crowd_factor,
                      inhibitor_growth_factor(IF INHIBITOR_ON THEN c.signals[2] ELSE 0,
                                              st.qs_inhib)),
              !.divideFlag = (c.volume >= c.targetVol),
              !.color = cell_color(c, st.qs_inhib)]

qs_sa_alive(c, st) ==
    [c EXCEPT !.growthRate =
                 Rate(SA_MU, st.crowd_factor,
                      inhibitor_growth_factor(IF INHIBITOR_ON THEN c.signals[2] ELSE 0,
                                              st.qs_inhib)),
              !.divideFlag = (c.volume > c.targetVol),
              !.color = cell_color(c, st.qs_inhib)]

qs_pa_step(c, st) ==
    [c EXCEPT !.growthRate = Rate(PA_MU, st.crowd_factor, pa_growth_factor(c.cellType)),
              !.divideFlag = (c.volume > c.targetVol),
              !.deadCounter = 0,
              !.color = cell_color(c, st.qs_inhib)]

\* Branch 1 (DIFFUSIVE_KILLING off), one cell of the scan
qs_no_kill_step(st, cid) ==
    LET c == st.cells[cid]
    IN  IF c.cellType = DEAD_TYPE THEN dead_step(st, cid)
        ELSE IF c.cellType = SA_TYPE
        THEN IF INHIBITOR_ON /\ c.signals = NoReading THEN [st EXCEPT !.raised = TRUE]
             ELSE [st EXCEPT !.cells[cid] = [qs_sa_alive(c, st) EXCEPT !.deadCounter = 0]]
        ELSE IF c.cellType \in PA_TYPES
        THEN [st EXCEPT !.cells[cid] = qs_pa_step(c, st)]
        ELSE st

\* variant: the toxin test is strict
qs_kill_step_strict(st, cid) ==
    LET c == st.cells[cid]
    IN  IF c.cellType = DEAD_TYPE THEN dead_step(st, cid)
        ELSE IF c.cellType = SA_TYPE
        THEN IF c.signals = NoReading THEN [st EXCEPT !.raised = TRUE]
             ELSE IF c.signals[1] > TOXIN_KILL_THRESHOLD
             THEN [st EXCEPT !.cells[cid] =
                     [c EXCEPT !.cellType = DEAD_TYPE, !.growthRate = 0,
                               !.divideFlag = FALSE, !.color = COL_DEAD,
                               !.deadCounter = 0]]
             ELSE [st EXCEPT !.cells[cid] = qs_sa_alive(c, st)]
        ELSE IF c.cellType \in PA_TYPES
        THEN [st EXCEPT !.cells[cid] = qs_pa_step(c, st)]
        ELSE st

\* variant: the kill branch leaves the divideFlag of the growth rule standing
qs_kill_step_keep_flag(st, cid) ==
    LET c == st.cells[cid]
    IN  IF c.cellType = DEAD_TYPE THEN dead_step(st, cid)
        ELSE IF c.cellType = SA_TYPE
        THEN IF c.signals = NoReading THEN [st EXCEPT !.raised = TRUE]
             ELSE IF c.signals[1] >= TOXIN_KILL_THRESHOLD
             THEN [st EXCEPT !.cells[cid] =
                     [c EXCEPT !.cellType = DEAD_TYPE, !.growthRate = 0,
                               !.divideFlag = (c.volume > c.targetVol),
                               !.color = COL_DEAD, !.deadCounter = 0]]
             ELSE [st EXCEPT !.cells[cid] = qs_sa_alive(c, st)]
        ELSE IF c.cellType \in PA_TYPES
        THEN [st EXCEPT !.cells[cid] = qs_pa_step(c, st)]
        ELSE st

\* variant: the toxin test is made before the type of the living cell is read
qs_kill_step_any_cell(st, cid) ==
    LET c == st.cells[cid]
    IN  IF c.cellType = DEAD_TYPE THEN dead_step(st, cid)
        ELSE IF c.signals = NoReading THEN [st EXCEPT !.raised = TRUE]
        ELSE IF c.signals[1] >= TOXIN_KILL_THRESHOLD
        THEN [st EXCEPT !.cells[cid] =
                [c EXCEPT !.cellType = DEAD_TYPE, !.growthRate = 0,
                          !.divideFlag = FALSE, !.color = COL_DEAD,
                          !.deadCounter = 0]]
        ELSE IF c.cellType = SA_TYPE
        THEN [st EXCEPT !.cells[cid] = qs_sa_alive(c, st)]
        ELSE IF c.cellType \in PA_TYPES
        THEN [st EXCEPT !.cells[cid] = qs_pa_step(c, st)]
        ELSE st

\* variant: the kill marks the cell with a type that no rule recognises
qs_kill_step_untyped(st, cid) ==
    LET c == st.cells[cid]
    IN  IF c.cellType = DEAD_TYPE THEN dead_step(st, cid)
        ELSE IF c.cellType = SA_TYPE
        THEN IF c.signals = NoReading THEN [st EXCEPT !.raised = TRUE]
             ELSE IF c.signals[1] >= TOXIN_KILL_THRESHOLD
             THEN [st EXCEPT !.cells[cid] =
                     [c EXCEPT !.cellType = 5, !.growthRate = 0,
                               !.divideFlag = FALSE, !.color = COL_DEAD,
                               !.deadCounter = 0]]
             ELSE [st EXCEPT !.cells[cid] = qs_sa_alive(c, st)]
        ELSE IF c.cellType \in PA_TYPES
        THEN [st EXCEPT !.cells[cid] = qs_pa_step(c, st)]
        ELSE st

\* variant: the dead branch is tested after the SA branch, so that a cell
\* killed in this visit is aged in the same visit
qs_kill_step_then_age(st, cid) ==
    LET c == st.cells[cid]
    IN  IF c.cellType = DEAD_TYPE THEN dead_step(st, cid)
        ELSE IF c.cellType = SA_TYPE
        THEN IF c.signals = NoReading THEN [st EXCEPT !.raised = TRUE]
             ELSE IF c.signals[1] >= TOXIN_KILL_THRESHOLD
             THEN dead_step([st EXCEPT !.cells[cid] =
                     [c EXCEPT !.cellType = DEAD_TYPE, !.growthRate = 0,
                               !.divideFlag = FALSE, !.color = COL_DEAD,
                               !.deadCounter = 0]], cid)
             ELSE [st EXCEPT !.cells[cid] = qs_sa_alive(c, st)]
        ELSE IF c.cellType \in PA_TYPES
        THEN [st EXCEPT !.cells[cid] = qs_pa_step(c, st)]
        ELSE st

\* Branch 2 (DIFFUSIVE_KILLING on), one cell of the scan
qs_kill_step(st, cid) ==
    LET c == st.cells[cid]
    IN  IF c.cellType = DEAD_TYPE THEN dead_step(st, cid)
        ELSE IF c.cellType = SA_TYPE
        THEN IF c.signals = NoReading THEN [st EXCEPT !.raised = TRUE]
             ELSE IF c.signals[1] >= TOXIN_KILL_THRESHOLD
             THEN [st EXCEPT !.cells[cid] =
                     [c EXCEPT !.cellType = DEAD_TYPE, !.growthRate = 0,
                               !.divideFlag = FALSE, !.color = COL_DEAD,
                               !.deadCounter = 0]]
             ELSE [st EXCEPT !.cells[cid] = qs_sa_alive(c, st)]
        ELSE IF c.cellType \in PA_TYPES
        THEN [st EXCEPT !.cells[cid] = qs_pa_step(c, st)]
        ELSE st

RECURSIVE qs_no_kill_scan(_, _)
qs_no_kill_scan(st, order) ==
    IF order = <<>> \/ st.raised THEN st
    ELSE qs_no_kill_scan(qs_no_kill_step(st, Head(order)), Tail(order))

RECURSIVE qs_kill_scan(_, _)
qs_kill_scan(st, order) ==
    IF order = <<>> \/ st.raised THEN st
    ELSE qs_kill_scan(qs_kill_step(st, Head(order)), Tail(order))

\* the locals of one update call before the scan: the crowding factor of the
\* population as handed in, the cells and flags as the QS activation left them
qs_scan_start(cs, qs) ==
    [cells |-> qs.cells, cells_to_remove |-> <<>>,
     crowd_factor |-> crowd_factor(Cardinality(DOMAIN cs)),
     qs_inhib |-> qs.qs_inhib, qs_toxin |-> qs.qs_toxin, raised |-> FALSE]

\* variant: the promotions run after the per-cell rules
update_QS_late_activation(cs, order, qs_inhib, qs_toxin) ==
    LET start == qs_scan_start(cs, [cells |-> cs, qs_inhib |-> qs_inhib,
                                    qs_toxin |-> qs_toxin])
        scan(st) == IF ~DIFFUSIVE_KILLING THEN qs_no_kill_scan(st, order)
                    ELSE qs_kill_scan(st, order)
        finish(scanned, act) ==
          IF scanned.raised
          THEN [cells |-> act.cells, cells_to_remove |-> <<>>,
                qs_inhib |-> act.qs_inhib, qs_toxin |-> act.qs_toxin,
                raised |-> TRUE]
          ELSE [cells |-> pop_all(act.cells, scanned.cells_to_remove),
                cells_to_remove |-> scanned.cells_to_remove,
                qs_inhib |-> act.qs_inhib, qs_toxin |-> act.qs_toxin,
                raised |-> FALSE]
        activate(scanned) ==
          finish(scanned, qs_activation(scanned.cells, qs_inhib, qs_toxin))
    IN  activate(scan(start))

\* update(cells) of diffusion_kill_QS.py with the cells visited in the given
\* order: the population after the removals, the removal list, the two globals
update_QS(cs, order, qs_inhib, qs_toxin) ==
    LET start(qs) == qs_scan_start(cs, qs)
        \* a raise leaves the scan where it stopped: the cells visited so far
        \* are updated, the switches are set, nothing is removed
        finish(scanned) ==
          IF scanned.raised
          THEN [cells |-> scanned.cells, cells_to_remove |-> <<>>,
                qs_inhib |-> scanned.qs_inhib, qs_toxin |-> scanned.qs_toxin,
                raised |-> TRUE]
          ELSE [cells |-> pop_all(scanned.cells, scanned.cells_to_remove),
                cells_to_remove |-> scanned.cells_to_remove,
                qs_inhib |-> scanned.qs_inhib, qs_toxin |-> scanned.qs_toxin,
                raised |-> FALSE]
        scan(st) == IF ~DIFFUSIVE_KILLING THEN qs_no_kill_scan(st, order)
                    ELSE qs_kill_scan(st, order)
    IN  finish(scan(start(qs_activation(cs, qs_inhib, qs_toxin))))

\* variant: the flags of the copies of the parent are not reset
divide_QS_no_reset(parent, d1, d2, jitter1, jitter2, qs_active_inhib) ==
    LET ptype == parent.cellType
        typed(d, jitter) ==
          LET dt == [d EXCEPT !.cellType = ptype]
          IN  IF ptype = SA_TYPE
              THEN [dt EXCEPT !.color = cell_color(dt, qs_active_inhib),
                              !.growthRate = BaseRate(SA_MU),
                              !.targetVol = DIV_LENGTH_MEAN_SA + jitter]
              ELSE IF ptype \in PA_TYPES
              THEN [dt EXCEPT !.color = cell_color(dt, qs_active_inhib),
                              !.growthRate = BaseRate(PA_MU),
                              !.targetVol = DIV_LENGTH_MEAN_PA + jitter]
              ELSE dt
    IN  <<typed(d1, jitter1), typed(d2, jitter2)>>

\* variant: the daughters of a PA parent start silent
divide_QS_silent(parent, d1, d2, jitter1, jitter2, qs_active_inhib) ==
    LET ptype == IF parent.cellType \in PA_TYPES THEN PA_TYPE_SILENT
                 ELSE parent.cellType
        typed(d, jitter) ==
          LET dt == [d EXCEPT !.cellType = ptype]
          IN  IF ptype = SA_TYPE
              THEN [dt EXCEPT !.color = cell_color(dt, qs_active_inhib),
                              !.growthRate = BaseRate(SA_MU),
                              !.targetVol = DIV_LENGTH_MEAN_SA + jitter]
              ELSE IF ptype \in PA_TYPES
              THEN [dt EXCEPT !.color = cell_color(dt, qs_active_inhib),
                              !.growthRate = BaseRate(PA_MU),
                              !.targetVol = DIV_LENGTH_MEAN_PA + jitter]
              ELSE dt
        reset(d) == [d EXCEPT !.divideFlag = FALSE, !.deadCounter = 0]
    IN  <<reset(typed(d1, jitter1)), reset(typed(d2, jitter2))>>

\* the diagnostics of a printing step (every PRINT_EVERY-th call): max() over
\* the SA cells and over the PA cells raises ValueError when there is none
diagnostics_raise_QS(cs, step) ==
    /\ step % PRINT_EVERY = 0
    /\ DIFFUSIVE_KILLING
    /\ \/ ~ \E k \in DOMAIN cs : cs[k].cellType = SA_TYPE
       \/ ~ \E k \in DOMAIN cs : cs[k].cellType \in PA_TYPES

divide_QS(parent, d1, d2, jitter1, jitter2, qs_active_inhib) ==
    LET ptype == parent.cellType
        typed(d, jitter) ==
          LET dt == [d EXCEPT !.cellType = ptype]
          IN  IF ptype = SA_TYPE
              THEN [dt EXCEPT !.color = cell_color(dt, qs_active_inhib),
                              !.growthRate = BaseRate(SA_MU),
                              !.targetVol = DIV_LENGTH_MEAN_SA + jitter]
              ELSE IF ptype \in PA_TYPES
              THEN [dt EXCEPT !.color = cell_color(dt, qs_active_inhib),
                              !.growthRate = BaseRate(PA_MU),
                              !.targetVol = DIV_LENGTH_MEAN_PA + jitter]
              ELSE dt
        reset(d) == [d EXCEPT !.divideFlag = FALSE, !.deadCounter = 0]
    IN  <<reset(typed(d1, jitter1)), reset(typed(d2, jitter2))>>

-----------------------------------------------------------------------------
(* The host (CellModeller): setup seeds the population and calls init on     *)
(* every cell; each step it calls update on the population as the biophysics *)
(* and the signalling left it, and divides the cells whose divideFlag is set.*)
(* The print diagnostics of update run every PRINT_EVERY = 100 calls, beyond *)
(* MaxSteps.                                                                 *)

\* update calls per run: enough for a killed cell to age out
MaxSteps == MaxLifetime + 1

Scripts == {"contact_kill", "diffusion_kill_QS"}

\* setup seeds two cells, ids 1 and 2
InitKeys == {1, 2}

Volumes == {100, 400}
NearFar == {<<0, 0>>, <<3, 0>>}
Coords == (0 - MaxCoord)..MaxCoord
Positions == Coords \X Coords
NoSignals == <<0, 0>>
\* <<volume, signals>> readings of a cell of the QS script: small or large, no
\* toxin or toxin at the kill threshold, inhibitor absent or at full inhibition
QSReadings == {<<100, <<0, 0>>>>, <<400, <<0, 0>>>>, <<400, <<1, 0>>>>, <<100, <<0, 2>>>>}

Jitter(ctype) == IF ctype = SA_TYPE THEN JitterSA
                 ELSE IF ctype \in PA_TYPES THEN JitterPA ELSE {0}

\* setup seeds SA and PA cells (PA start silent in the QS script) and the
\* host calls init on each
SeedTypes(s) == IF s = "contact_kill" THEN {0, 1} ELSE {SA_TYPE, PA_TYPE_SILENT}

SeedCells(s, positions) ==
    { IF s = "contact_kill" THEN init_contact_kill(NewCell(t, p, 100, NoSignals), 0)
      ELSE init_QS(NewCell(t, p, 100, NoSignals), 0, FALSE) :
        t \in SeedTypes(s), p \in positions }

InitConfig ==
    /\ script \in Scripts
    /\ DEAD_LIFETIME \in 1..MaxLifetime
    /\ CARRYING_CAPACITY = 3
    /\ INHIB_GROWTH_COST = INHIB_GROWTH_COST_DEFAULT
    /\ TOXIN_GROWTH_COST = TOXIN_GROWTH_COST_DEFAULT
    /\ QS_ON_INHIB = QS_ON_INHIB_DEFAULT
    /\ QS_ON_TOXIN = QS_ON_TOXIN_DEFAULT
    /\ IF script = "contact_kill"
       THEN /\ CONTACT_KILLING \in BOOLEAN
            /\ DIFFUSIVE_KILLING = FALSE
            /\ QS_POP_THRESHOLD_INHIB = 1
            /\ QS_POP_THRESHOLD_TOXIN = 1
       ELSE /\ CONTACT_KILLING = FALSE
            /\ DIFFUSIVE_KILLING \in BOOLEAN
            /\ QS_POP_THRESHOLD_INHIB \in 1..MaxThreshold
            /\ QS_POP_THRESHOLD_TOXIN \in 1..MaxThreshold

InitRest ==
    /\ next_id = 3
    /\ STEP_COUNTER = 0
    /\ QS_ACTIVE_INHIB = FALSE
    /\ QS_ACTIVE_TOXIN = FALSE
    /\ cells_to_remove = <<>>
    /\ raised = FALSE

Init ==
    /\ InitConfig
    /\ cells \in [InitKeys -> SeedCells(script, IF script = "contact_kill"
                                                 THEN NearFar ELSE {<<0, 0>>})]
    /\ InitRest

\* what the biophysics and the signalling did since the previous update call:
\* nothing, or new geometry (contact_kill.py) or new volume and readings
\* (diffusion_kill_QS.py) for one live cell
sense(cs, cid, pos, volume, signals) ==
    [cs EXCEPT ![cid].pos = pos, ![cid].volume = volume, ![cid].signals = signals]

Sensed(cs) ==
    {cs} \cup
    { sense(cs, cid, e[1], e[2], e[3]) :
        cid \in {k \in DOMAIN cs : cs[k].cellType # DEAD_TYPE},
        e \in IF script = "contact_kill"
              THEN NearFar \X Volumes \X {NoSignals}
              ELSE {<<(<<0, 0>>), r[1], r[2]>> : r \in QSReadings} }

UpdateContactKill ==
    /\ script = "contact_kill"
    /\ ~raised
    /\ STEP_COUNTER < MaxSteps
    /\ \E cs \in Sensed(cells) :
         \E r \in {update_contact_kill(cs, items(cs))} :
             /\ cells' = r.cells
             /\ cells_to_remove' = r.cells_to_remove
    /\ STEP_COUNTER' = STEP_COUNTER + 1
    /\ UNCHANGED <<config, next_id, QS_ACTIVE_INHIB, QS_ACTIVE_TOXIN, raised>>

UpdateQS ==
    /\ script = "diffusion_kill_QS"
    /\ ~raised
    /\ STEP_COUNTER < MaxSteps
    /\ \E cs \in Sensed(cells) :
         \E r \in {update_QS(cs, items(cs), QS_ACTIVE_INHIB, QS_ACTIVE_TOXIN)} :
             /\ cells' = r.cells
             /\ cells_to_remove' = r.cells_to_remove
             /\ QS_ACTIVE_INHIB' = r.qs_inhib
             /\ QS_ACTIVE_TOXIN' = r.qs_toxin
             /\ raised' = (r.raised \/ diagnostics_raise_QS(r.cells, STEP_COUNTER + 1))
    /\ STEP_COUNTER' = STEP_COUNTER + 1
    /\ UNCHANGED <<config, next_id>>

\* the host replaces the parent by two daughters, copies of the parent's state
\* under fresh ids and with the split volume, and calls divide(parent, d1, d2)
Daughter(parent) == [parent EXCEPT !.volume = 100]

split(cs, pid, ds) ==
    [k \in ((DOMAIN cs) \ {pid}) \cup {next_id, next_id + 1} |->
        IF k = next_id THEN ds[1] ELSE IF k = next_id + 1 THEN ds[2] ELSE cs[k]]

DivideContactKillOf(pid) ==
    /\ script = "contact_kill"
    /\ ~raised
    /\ next_id + 1 <= MaxKey
    /\ \E j1, j2 \in Jitter(cells[pid].cellType) :
         cells' = split(cells, pid,
                        divide_contact_kill(cells[pid], Daughter(cells[pid]),
                                            Daughter(cells[pid]), j1, j2))
    /\ next_id' = next_id + 2
    /\ UNCHANGED <<config, STEP_COUNTER, QS_ACTIVE_INHIB, QS_ACTIVE_TOXIN,
                   cells_to_remove, raised>>

DivideQSOf(pid) ==
    /\ script = "diffusion_kill_QS"
    /\ ~raised
    /\ next_id + 1 <= MaxKey
    /\ \E j1, j2 \in Jitter(cells[pid].cellType) :
         cells' = split(cells, pid,
                        divide_QS(cells[pid], Daughter(cells[pid]),
                                  Daughter(cells[pid]), j1, j2, QS_ACTIVE_INHIB))
    /\ next_id' = next_id + 2
    /\ UNCHANGED <<config, STEP_COUNTER, QS_ACTIVE_INHIB, QS_ACTIVE_TOXIN,
                   cells_to_remove, raised>>

\* the host divides the cells whose divideFlag an update call has set
DivideContactKill == \E pid \in DOMAIN cells : cells[pid].divideFlag /\ DivideContactKillOf(pid)

DivideQS == \E pid \in DOMAIN cells : cells[pid].divideFlag /\ DivideQSOf(pid)

Next ==
    \/ UpdateContactKill
    \/ UpdateQS
    \/ DivideContactKill
    \/ DivideQS

Spec == Init /\ [][Next]_vars

-----------------------------------------------------------------------------
(* A lineage: the population grown from one seeded cell, so that a daughter  *)
(* of a daughter is within the key bound.                                    *)

LineageKeys == {0}

InitLineage ==
    /\ InitConfig
    /\ cells \in [LineageKeys -> SeedCells(script, {<<0, 0>>})]
    /\ next_id = 1
    /\ STEP_COUNTER = 0
    /\ QS_ACTIVE_INHIB = FALSE
    /\ QS_ACTIVE_TOXIN = FALSE
    /\ cells_to_remove = <<>>
    /\ raised = FALSE

NextLineage ==
    \/ UpdateContactKill
    \/ UpdateQS
    \/ DivideContactKill
    \/ DivideQS

SpecLineage == InitLineage /\ [][NextLineage]_vars

-----------------------------------------------------------------------------
(* The hooks under any caller: cells may be added with the dead tag or with  *)
(* a tag no rule names (init has a branch for both) and divide may be called *)
(* on any parent, whatever its divideFlag.                                   *)

\* a cellType that none of the comparisons of either script matches
UnrecognisedType == 5

AnySeedCells(s) ==
    SeedCells(s, {<<0, 0>>}) \cup
    { IF s = "contact_kill" THEN init_contact_kill(NewCell(t, <<0, 0>>, 100, NoSignals), 0)
      ELSE init_QS(NewCell(t, <<0, 0>>, 100, NoSignals), 0, FALSE) :
      t \in {DEAD_TYPE, UnrecognisedType} }

InitAny ==
    /\ InitConfig
    /\ DEAD_LIFETIME = MaxLifetime
    /\ cells \in [InitKeys -> AnySeedCells(script)]
    /\ InitRest

DivideAnyContactKill == \E pid \in DOMAIN cells : DivideContactKillOf(pid)

DivideAnyQS == \E pid \in DOMAIN cells : DivideQSOf(pid)

NextAny ==
    \/ UpdateContactKill
    \/ UpdateQS
    \/ DivideAnyContactKill
    \/ DivideAnyQS

SpecAny == InitAny /\ [][NextAny]_vars

-----------------------------------------------------------------------------
(* One update call, as a function of the population it is handed and of the *)
(* order in which its scan visits the cells.  contact_kill.py: an SA and a  *)
(* PA cell anywhere on the lattice and a third cell at the origin.          *)
(* diffusion_kill_QS.py: an SA cell and a silent PA cell under any readings *)
(* and a third cell without readings.  The third cell may have been added   *)
(* dead.                                                                    *)

ScanKeys == {1, 2, 3}

\* toxin below, at and above the kill threshold
ToxinReadings == {0, 1, 2}
\* inhibitor absent, partial, at and above full inhibition
InhibReadings == {0, 1, 2, 3}

InitScanContactKill ==
    /\ script = "contact_kill"
    /\ CONTACT_KILLING \in BOOLEAN
    /\ DIFFUSIVE_KILLING = FALSE
    /\ QS_POP_THRESHOLD_INHIB = 1
    /\ QS_POP_THRESHOLD_TOXIN = 1
    /\ \E p1, p2 \in Positions : \E t3 \in {0, 1, 2} :
         cells = [k \in ScanKeys |->
                    init_contact_kill(
                        NewCell(IF k = 1 THEN 0 ELSE IF k = 2 THEN 1 ELSE t3,
                                IF k = 1 THEN p1 ELSE IF k = 2 THEN p2 ELSE <<0, 0>>,
                                100, NoSignals), 0)]

InitScanQS ==
    /\ script = "diffusion_kill_QS"
    /\ CONTACT_KILLING = FALSE
    /\ DIFFUSIVE_KILLING \in BOOLEAN
    /\ QS_POP_THRESHOLD_INHIB \in 1..MaxThreshold
    /\ QS_POP_THRESHOLD_TOXIN \in 1..MaxThreshold
    /\ \E v1, v2 \in Volumes : \E x1, x2 \in ToxinReadings : \E h1 \in InhibReadings :
         \E t3 \in {SA_TYPE, PA_TYPE_SILENT, DEAD_TYPE} : \E attached \in BOOLEAN :
           cells = [k \in ScanKeys |->
                      init_QS(NewCell(IF k = 1 THEN SA_TYPE
                                      ELSE IF k = 2 THEN PA_TYPE_SILENT ELSE t3,
                                      <<0, 0>>,
                                      IF k = 1 THEN v1 ELSE IF k = 2 THEN v2 ELSE 100,
                                      IF ~attached THEN NoReading
                                      ELSE IF k = 1 THEN <<x1, h1>>
                                      ELSE IF k = 2 THEN <<x2, 0>> ELSE NoSignals),
                              0, FALSE)]

\* capacities below, at and above the population size of the call
ScanCapacities(s) == IF s = "contact_kill" THEN {6} ELSE {2, 3, 6}

InitScan ==
    /\ DEAD_LIFETIME \in 1..MaxLifetime
    /\ script \in Scripts
    /\ CARRYING_CAPACITY \in ScanCapacities(script)
    /\ INHIB_GROWTH_COST = INHIB_GROWTH_COST_DEFAULT
    /\ TOXIN_GROWTH_COST = TOXIN_GROWTH_COST_DEFAULT
    /\ QS_ON_INHIB = QS_ON_INHIB_DEFAULT
    /\ QS_ON_TOXIN = QS_ON_TOXIN_DEFAULT
    /\ InitScanContactKill \/ InitScanQS
    /\ next_id = 4
    /\ STEP_COUNTER = 0
    /\ QS_ACTIVE_INHIB = FALSE
    /\ QS_ACTIVE_TOXIN = FALSE
    /\ cells_to_remove = <<>>
    /\ raised = FALSE

ScanContactKill ==
    /\ script = "contact_kill"
    /\ STEP_COUNTER = 0
    /\ \E order \in Orders(DOMAIN cells) :
         \E r \in {update_contact_kill(cells, order)} :
             /\ cells' = r.cells
             /\ cells_to_remove' = r.cells_to_remove
    /\ STEP_COUNTER' = STEP_COUNTER + 1
    /\ UNCHANGED <<config, next_id, QS_ACTIVE_INHIB, QS_ACTIVE_TOXIN, raised>>

ScanQS ==
    /\ script = "diffusion_kill_QS"
    /\ STEP_COUNTER = 0
    /\ \E order \in Orders(DOMAIN cells) :
         \E r \in {update_QS(cells, order, QS_ACTIVE_INHIB, QS_ACTIVE_TOXIN)} :
             /\ cells' = r.cells
             /\ cells_to_remove' = r.cells_to_remove
             /\ QS_ACTIVE_INHIB' = r.qs_inhib
             /\ QS_ACTIVE_TOXIN' = r.qs_toxin
             /\ raised' = (r.raised \/ diagnostics_raise_QS(r.cells, STEP_COUNTER + 1))
    /\ STEP_COUNTER' = STEP_COUNTER + 1
    /\ UNCHANGED <<config, next_id>>

NextScan ==
    \/ ScanContactKill
    \/ ScanQS

SpecScan == InitScan /\ [][NextScan]_vars

-----------------------------------------------------------------------------
(* diffusion_kill.py: toxin killing and growth inhibition without quorum     *)
(* sensing. Its concentrations are counted in halves of a unit, so that the  *)
(* kill threshold 0.5 and the readings around it are integers.               *)

TOXIN_KILL_THRESHOLD_DK == 1      \* 0.5
INHIB_EFFECT_STRENGTH_DK == 5     \* 1 per unit: 0.5 per half unit, in tenths

\* variant: the factor is not floored
inhibitor_growth_factor_DK_unfloored(inh_conc) ==
    IF ~INHIBITOR_ON THEN 10
    ELSE 10 - INHIB_EFFECT_STRENGTH_DK * inh_conc

\* in tenths
inhibitor_growth_factor_DK(inh_conc) ==
    IF ~INHIBITOR_ON THEN 10
    ELSE Max0(10 - INHIB_EFFECT_STRENGTH_DK * inh_conc)

\* COLOR_BY_INHIBITOR = True: SA from green to yellow with the inhibitor
cell_color_DK(cell) ==
    IF cell.cellType = 2 THEN COL_DEAD
    ELSE IF cell.cellType = 0
    THEN <<10 - inhibitor_growth_factor_DK(IF INHIBITOR_ON THEN cell.signals[2] ELSE 0),
           10, 0>>
    ELSE IF cell.cellType = 1 THEN COL_PA
    ELSE COL_OTHER

init_DK(cell, jitter) ==
    LET typed ==
          IF cell.cellType = 0
          THEN [cell EXCEPT !.growthRate = BaseRate(SA_MU), !.color = COL_SA,
                            !.targetVol = DIV_LENGTH_MEAN_SA + jitter]
          ELSE IF cell.cellType = 1
          THEN [cell EXCEPT !.growthRate = BaseRate(PA_MU), !.color = COL_PA,
                            !.targetVol = DIV_LENGTH_MEAN_PA + jitter]
          ELSE [cell EXCEPT !.growthRate = 0, !.color = COL_DEAD,
                            !.targetVol = DeadTargetVol]
    IN  [typed EXCEPT !.divideFlag = FALSE, !.deadCounter = 0]

sa_alive_DK(c, st) ==
    [c EXCEPT !.growthRate =
                 Rate(SA_MU, st.crowd_factor,
                      inhibitor_growth_factor_DK(IF INHIBITOR_ON THEN c.signals[2] ELSE 0)),
              !.divideFlag = (c.volume > c.targetVol),
              !.color = cell_color_DK(c)]

pa_step_DK(c, st) ==
    [c EXCEPT !.growthRate = Rate(PA_MU, st.crowd_factor, 10),
              !.divideFlag = (c.volume > c.targetVol),
              !.deadCounter = 0,
              !.color = COL_PA]

\* Branch 1 (DIFFUSIVE_KILLING off), one cell of the scan
no_kill_step_DK(st, cid) ==
    LET c == st.cells[cid]
    IN  IF c.cellType = 2 THEN dead_step(st, cid)
        ELSE IF c.cellType = 0
        THEN IF INHIBITOR_ON /\ c.signals = NoReading THEN [st EXCEPT !.raised = TRUE]
             ELSE [st EXCEPT !.cells[cid] = [sa_alive_DK(c, st) EXCEPT !.deadCounter = 0]]
        ELSE IF c.cellType = 1
        THEN [st EXCEPT !.cells[cid] = pa_step_DK(c, st)]
        ELSE st

\* Branch 2 (DIFFUSIVE_KILLING on), one cell of the scan
kill_step_DK(st, cid) ==
    LET c == st.cells[cid]
    IN  IF c.cellType = 2 THEN dead_step(st, cid)
        ELSE IF c.cellType = 0
        THEN IF c.signals = NoReading THEN [st EXCEPT !.raised = TRUE]
             ELSE IF c.signals[1] >= TOXIN_KILL_THRESHOLD_DK
             THEN [st EXCEPT !.cells[cid] =
                     [c EXCEPT !.cellType = 2, !.growthRate = 0,
                               !.divideFlag = FALSE, !.color = COL_DEAD,
                               !.deadCounter = 0]]
             ELSE [st EXCEPT !.cells[cid] = sa_alive_DK(c, st)]
        ELSE IF c.cellType = 1
        THEN [st EXCEPT !.cells[cid] = pa_step_DK(c, st)]
        ELSE st

RECURSIVE scan_DK(_, _)
scan_DK(st, order) ==
    IF order = <<>> \/ st.raised THEN st
    ELSE scan_DK(IF ~DIFFUSIVE_KILLING THEN no_kill_step_DK(st, Head(order))
                 ELSE kill_step_DK(st, Head(order)),
                 Tail(order))

\* the diagnostics of a printing step: max() over the SA cells and over the
\* PA cells raises ValueError when there is none
diagnostics_raise_DK(cs, step) ==
    /\ step % PRINT_EVERY = 0
    /\ DIFFUSIVE_KILLING
    /\ \/ ~ \E k \in DOMAIN cs : cs[k].cellType = 0
       \/ ~ \E k \in DOMAIN cs : cs[k].cellType = 1

\* the scan and the removal of update, without the diagnostics
scan_and_remove_DK(cs, order) ==
    LET start == [cells |-> cs, cells_to_remove |-> <<>>,
                  crowd_factor |-> crowd_factor(Cardinality(DOMAIN cs)),
                  raised |-> FALSE]
        finish(scanned) ==
          IF scanned.raised
          THEN [cells |-> scanned.cells, cells_to_remove |-> <<>>, raised |-> TRUE]
          ELSE [cells |-> pop_all(scanned.cells, scanned.cells_to_remove),
                cells_to_remove |-> scanned.cells_to_remove, raised |-> FALSE]
    IN  finish(scan_DK(start, order))

update_DK(cs, order, step) ==
    LET diagnose(r) ==
          IF r.raised THEN r
          ELSE [r EXCEPT !.raised = diagnostics_raise_DK(r.cells, step)]
    IN  diagnose(scan_and_remove_DK(cs, order))

\* one update call of diffusion_kill.py, the first or the PRINT_EVERY-th of
\* the run, on a population of SA, PA and dead cells
InitDK ==
    /\ script = "diffusion_kill"
    /\ DEAD_LIFETIME \in 1..MaxLifetime
    /\ CARRYING_CAPACITY \in ScanCapacities(script)
    /\ INHIB_GROWTH_COST = INHIB_GROWTH_COST_DEFAULT
    /\ TOXIN_GROWTH_COST = TOXIN_GROWTH_COST_DEFAULT
    /\ QS_ON_INHIB = QS_ON_INHIB_DEFAULT
    /\ QS_ON_TOXIN = QS_ON_TOXIN_DEFAULT
    /\ CONTACT_KILLING = FALSE
    /\ DIFFUSIVE_KILLING \in BOOLEAN
    /\ QS_POP_THRESHOLD_INHIB = 1
    /\ QS_POP_THRESHOLD_TOXIN = 1
    /\ \E v1, v2 \in Volumes : \E x1 \in ToxinReadings : \E h1 \in InhibReadings :
         \E t2 \in {0, 1} : \E t3 \in {0, 1, 2} :
           cells = [k \in ScanKeys |->
                      init_DK(NewCell(IF k = 1 THEN 0 ELSE IF k = 2 THEN t2 ELSE t3,
                                      <<0, 0>>,
                                      IF k = 1 THEN v1 ELSE IF k = 2 THEN v2 ELSE 100,
                                      IF k = 1 THEN <<x1, h1>> ELSE NoSignals),
                              0)]
    /\ next_id = 4
    /\ STEP_COUNTER \in {0, PRINT_EVERY - 1}
    /\ QS_ACTIVE_INHIB = FALSE
    /\ QS_ACTIVE_TOXIN = FALSE
    /\ cells_to_remove = <<>>
    /\ raised = FALSE

UpdateDK ==
    /\ script = "diffusion_kill"
    /\ ~raised
    /\ STEP_COUNTER \in {0, PRINT_EVERY - 1}
    /\ \E r \in {update_DK(cells, items(cells), STEP_COUNTER + 1)} :
         /\ cells' = r.cells
         /\ cells_to_remove' = r.cells_to_remove
         /\ raised' = r.raised
    /\ STEP_COUNTER' = STEP_COUNTER + 1
    /\ UNCHANGED <<config, next_id, QS_ACTIVE_INHIB, QS_ACTIVE_TOXIN>>

NextDK == UpdateDK

SpecDK == InitDK /\ [][NextDK]_vars

-----------------------------------------------------------------------------
(* simulation.py: contact killing and killing by the intracellular toxin     *)
(* species[0], each with its own toggle. Concentrations in halves of a unit. *)

TOXIN_KILL_THRESHOLD_SIM == 1     \* 0.5
COL_SA_SIM == <<10, 0, 0>>
COL_WHITE == <<10, 10, 10>>

\* base colour blended to white with the toxin: base at 0, white from the
\* kill threshold on
toxin_to_color(cell) ==
    IF cell.cellType = 2 THEN COL_DEAD
    ELSE LET base == IF cell.cellType = 0 THEN COL_SA_SIM
                     ELSE IF cell.cellType = 1 THEN COL_PA ELSE COL_OTHER
         IN  IF DIFFUSIVE_KILLING
             THEN IF cell.species[1] >= TOXIN_KILL_THRESHOLD_SIM THEN COL_WHITE
                  ELSE base
             ELSE base

init_SIM(cell, jitter) ==
    LET typed ==
          IF cell.cellType = 0
          THEN [cell EXCEPT !.growthRate = BaseRate(SA_MU), !.color = COL_SA_SIM,
                            !.targetVol = DIV_LENGTH_MEAN_SA + jitter]
          ELSE IF cell.cellType = 1
          THEN [cell EXCEPT !.growthRate = BaseRate(PA_MU), !.color = COL_PA,
                            !.targetVol = DIV_LENGTH_MEAN_PA + jitter]
          ELSE [cell EXCEPT !.growthRate = 0, !.color = COL_DEAD,
                            !.targetVol = DeadTargetVol]
    IN  [typed EXCEPT !.divideFlag = FALSE, !.deadCounter = 0]

live_step_SIM(c, st, mu) ==
    [c EXCEPT !.growthRate = Rate(mu, st.crowd_factor, 10),
              !.divideFlag = (c.volume > c.targetVol),
              !.deadCounter = 0,
              !.color = toxin_to_color(c)]

\* Branch 1 (both toggles off), one cell of the scan
no_kill_step_SIM(st, cid) ==
    LET c == st.cells[cid]
    IN  IF c.cellType = 2 THEN dead_step(st, cid)
        ELSE IF c.cellType = 0
        THEN [st EXCEPT !.cells[cid] = live_step_SIM(c, st, SA_MU)]
        ELSE IF c.cellType = 1
        THEN [st EXCEPT !.cells[cid] = live_step_SIM(c, st, PA_MU)]
        ELSE st

\* Branch 2, first pass, one cell
first_pass_step_SIM(st, cid) ==
    LET c == st.cells[cid]
    IN  IF c.cellType = 1
        THEN [st EXCEPT !.pa_grid = grid_add(@, grid_index(c.pos[1], c.pos[2]),
                                             <<c.pos[1], c.pos[2], cid>>),
                        !.cells[cid] = live_step_SIM(c, st, PA_MU)]
        ELSE IF c.cellType = 0
        THEN [st EXCEPT !.sa_ids = Append(@, cid),
                        !.cells[cid] = [c EXCEPT !.deadCounter = 0]]
        ELSE IF c.cellType = 2 THEN dead_step(st, cid)
        ELSE st

\* variant: the neighbour query runs whenever branch 2 is entered
sa_step_SIM_ungated(st, cid) ==
    LET c == st.cells[cid]
        by_toxin == DIFFUSIVE_KILLING /\ c.species[1] >= TOXIN_KILL_THRESHOLD_SIM
        by_contact == /\ ~by_toxin
                      /\ \E e \in nearby_pa(st.pa_grid, c.pos[1], c.pos[2]) :
                            within_kill_radius(c.pos[1], c.pos[2], e[1], e[2])
    IN  IF by_toxin \/ by_contact
        THEN [st EXCEPT !.cells[cid] =
                [c EXCEPT !.cellType = 2, !.growthRate = 0, !.divideFlag = FALSE,
                          !.color = COL_DEAD, !.deadCounter = 0]]
        ELSE [st EXCEPT !.cells[cid] =
                [c EXCEPT !.growthRate = Rate(SA_MU, st.crowd_factor, 10),
                          !.divideFlag = (c.volume > c.targetVol),
                          !.color = toxin_to_color(c)]]

\* Branch 2, second pass, one SA cell: the toxin check, then the contact check
sa_step_SIM(st, cid) ==
    LET c == st.cells[cid]
        by_toxin == DIFFUSIVE_KILLING /\ c.species[1] >= TOXIN_KILL_THRESHOLD_SIM
        by_contact == /\ CONTACT_KILLING /\ ~by_toxin
                      /\ \E e \in nearby_pa(st.pa_grid, c.pos[1], c.pos[2]) :
                            within_kill_radius(c.pos[1], c.pos[2], e[1], e[2])
    IN  IF by_toxin \/ by_contact
        THEN [st EXCEPT !.cells[cid] =
                [c EXCEPT !.cellType = 2, !.growthRate = 0, !.divideFlag = FALSE,
                          !.color = COL_DEAD, !.deadCounter = 0]]
        ELSE [st EXCEPT !.cells[cid] =
                [c EXCEPT !.growthRate = Rate(SA_MU, st.crowd_factor, 10),
                          !.divideFlag = (c.volume > c.targetVol),
                          !.color = toxin_to_color(c)]]

RECURSIVE no_kill_scan_SIM(_, _)
no_kill_scan_SIM(st, order) ==
    IF order = <<>> THEN st
    ELSE no_kill_scan_SIM(no_kill_step_SIM(st, Head(order)), Tail(order))

RECURSIVE first_pass_SIM(_, _)
first_pass_SIM(st, order) ==
    IF order = <<>> THEN st
    ELSE first_pass_SIM(first_pass_step_SIM(st, Head(order)), Tail(order))

RECURSIVE second_pass_SIM(_, _)
second_pass_SIM(st, ids) ==
    IF ids = <<>> THEN st ELSE second_pass_SIM(sa_step_SIM(st, Head(ids)), Tail(ids))

\* the diagnostics of a printing step: max() over the SA cells raises
\* ValueError when there is none
diagnostics_raise_SIM(cs, step) ==
    /\ step % PRINT_EVERY = 0
    /\ DIFFUSIVE_KILLING
    /\ ~ \E k \in DOMAIN cs : cs[k].cellType = 0

update_SIM(cs, order, step) ==
    LET both_passes(p1) == second_pass_SIM(p1, p1.sa_ids)
        finish(scanned) ==
          [cells |-> pop_all(scanned.cells, scanned.cells_to_remove),
           cells_to_remove |-> scanned.cells_to_remove]
        diagnose(r) ==
          [cells |-> r.cells, cells_to_remove |-> r.cells_to_remove,
           raised |-> diagnostics_raise_SIM(r.cells, step)]
    IN  diagnose(finish(IF ~CONTACT_KILLING /\ ~DIFFUSIVE_KILLING
                        THEN no_kill_scan_SIM(scan_start(cs), order)
                        ELSE both_passes(first_pass_SIM(scan_start(cs), order))))

\* the fields of a new cell of simulation.py: those of NewCell and the
\* intracellular species of the integrator
NewCellSIM(ctype, pos, volume, species) ==
    [cellType |-> ctype, pos |-> pos, volume |-> volume, signals |-> NoSignals,
     species |-> species, targetVol |-> 0, growthRate |-> 0, divideFlag |-> FALSE,
     deadCounter |-> 0, color |-> COL_OTHER]

\* one update call of simulation.py, the first or the PRINT_EVERY-th of the
\* run: an SA cell with some toxin, a PA cell near or far, a third cell
InitSIM ==
    /\ script = "simulation"
    /\ DEAD_LIFETIME \in 1..MaxLifetime
    /\ CARRYING_CAPACITY = 6
    /\ INHIB_GROWTH_COST = INHIB_GROWTH_COST_DEFAULT
    /\ TOXIN_GROWTH_COST = TOXIN_GROWTH_COST_DEFAULT
    /\ QS_ON_INHIB = QS_ON_INHIB_DEFAULT
    /\ QS_ON_TOXIN = QS_ON_TOXIN_DEFAULT
    /\ CONTACT_KILLING \in BOOLEAN
    /\ DIFFUSIVE_KILLING \in BOOLEAN
    /\ QS_POP_THRESHOLD_INHIB = 1
    /\ QS_POP_THRESHOLD_TOXIN = 1
    /\ \E v1 \in Volumes : \E x1 \in ToxinReadings : \E p2 \in NearFar :
         \E t3 \in {0, 1, 2} :
           cells = [k \in ScanKeys |->
                      init_SIM(NewCellSIM(IF k = 1 THEN 0 ELSE IF k = 2 THEN 1 ELSE t3,
                                          IF k = 2 THEN p2
                                          ELSE IF k = 1 THEN <<0, 0>> ELSE <<3, 3>>,
                                          IF k = 1 THEN v1 ELSE 100,
                                          IF k = 1 THEN <<x1>> ELSE <<0>>),
                               0)]
    /\ next_id = 4
    /\ STEP_COUNTER \in {0, PRINT_EVERY - 1}
    /\ QS_ACTIVE_INHIB = FALSE
    /\ QS_ACTIVE_TOXIN = FALSE
    /\ cells_to_remove = <<>>
    /\ raised = FALSE

UpdateSIM ==
    /\ script = "simulation"
    /\ ~raised
    /\ STEP_COUNTER \in {0, PRINT_EVERY - 1}
    /\ \E r \in {update_SIM(cells, items(cells), STEP_COUNTER + 1)} :
         /\ cells' = r.cells
         /\ cells_to_remove' = r.cells_to_remove
         /\ raised' = r.raised
    /\ STEP_COUNTER' = STEP_COUNTER + 1
    /\ UNCHANGED <<config, next_id, QS_ACTIVE_INHIB, QS_ACTIVE_TOXIN>>

NextSIM == UpdateSIM

SpecSIM == InitSIM /\ [][NextSIM]_vars

-----------------------------------------------------------------------------
(* One update call of diffusion_kill_QS.py under other settings of the two   *)
(* metabolic costs: none, the defaults, and costs that sum to more than 1.   *)

Costs == {0, 2, 3, 6, 11}

InitCost ==
    /\ script = "diffusion_kill_QS"
    /\ DEAD_LIFETIME = 1
    /\ CARRYING_CAPACITY = 6
    /\ INHIB_GROWTH_COST \in Costs
    /\ TOXIN_GROWTH_COST \in Costs
    /\ QS_ON_INHIB = QS_ON_INHIB_DEFAULT
    /\ QS_ON_TOXIN = QS_ON_TOXIN_DEFAULT
    /\ CONTACT_KILLING = FALSE
    /\ DIFFUSIVE_KILLING \in BOOLEAN
    /\ QS_POP_THRESHOLD_INHIB \in 1..MaxThreshold
    /\ QS_POP_THRESHOLD_TOXIN \in 1..MaxThreshold
    /\ \E v2 \in Volumes : \E t3 \in {SA_TYPE, PA_TYPE_SILENT} :
           cells = [k \in ScanKeys |->
                      init_QS(NewCell(IF k = 1 THEN SA_TYPE
                                      ELSE IF k = 2 THEN PA_TYPE_SILENT ELSE t3,
                                      <<0, 0>>,
                                      IF k = 2 THEN v2 ELSE 100,
                                      NoSignals),
                              0, FALSE)]
    /\ next_id = 4
    /\ STEP_COUNTER = 0
    /\ QS_ACTIVE_INHIB = FALSE
    /\ QS_ACTIVE_TOXIN = FALSE
    /\ cells_to_remove = <<>>
    /\ raised = FALSE

NextCost == ScanQS

SpecCost == InitCost /\ [][NextCost]_vars

-----------------------------------------------------------------------------
(* staph_growth.py: one species without killing; a cell that is to divide is *)
(* turned by a quarter turn.  Volumes in hundredths, rates in tenths.  The   *)
(* script keeps no step counter: STEP_COUNTER counts its update calls.       *)

Dirs == {<<1, 0, 0>>, <<0, 1, 0>>, <<0 - 1, 0, 0>>, <<0, 0 - 1, 0>>}
VolumesSG == {100, 120, 400}
JitterSG == {0, 50}
MaxCallsSG == 2
SeedKeysSG == {1, 2}

\* [cellType*0.6+0.1, 1.0-cellType*0.6, 0.3] in tenths
color_SG(ctype) == <<ctype * 6 + 1, 10 - ctype * 6, 3>>

\* the fields the host gives a new cell before it calls init
NewCellSG(ctype, pos, dir, volume) ==
    [cellType |-> ctype, pos |-> pos, dir |-> dir, volume |-> volume,
     targetVol |-> 0, growthRate |-> 0, divideFlag |-> FALSE, color |-> COL_OTHER]

init_SG(cell, jitter) ==
    [cell EXCEPT !.targetVol = 100 + jitter, !.growthRate = 20]

\* the body of the loop of update for one cell
update_cell_SG(c) ==
    IF c.volume > c.targetVol
    THEN [c EXCEPT !.color = color_SG(c.cellType), !.divideFlag = TRUE,
                   !.dir = <<0 - c.dir[2], c.dir[1], c.dir[3]>>]
    ELSE [c EXCEPT !.color = color_SG(c.cellType)]

\* no cell reads another one: the loop is the cell-wise map
update_SG(cs) == [k \in DOMAIN cs |-> update_cell_SG(cs[k])]

divide_SG(parent, d1, d2, jitter1, jitter2) ==
    <<[d1 EXCEPT !.targetVol = 100 + jitter1],
      [d2 EXCEPT !.targetVol = 100 + jitter2]>>

InitSG ==
    /\ script = "staph_growth"
    /\ DEAD_LIFETIME = 1
    /\ CARRYING_CAPACITY = 0
    /\ INHIB_GROWTH_COST = INHIB_GROWTH_COST_DEFAULT
    /\ TOXIN_GROWTH_COST = TOXIN_GROWTH_COST_DEFAULT
    /\ QS_ON_INHIB = QS_ON_INHIB_DEFAULT
    /\ QS_ON_TOXIN = QS_ON_TOXIN_DEFAULT
    /\ CONTACT_KILLING = FALSE
    /\ DIFFUSIVE_KILLING = FALSE
    /\ QS_POP_THRESHOLD_INHIB = 1
    /\ QS_POP_THRESHOLD_TOXIN = 1
    /\ \E v \in [SeedKeysSG -> VolumesSG] : \E d \in [SeedKeysSG -> Dirs] :
         \E j \in [SeedKeysSG -> JitterSG] :
           cells = [k \in SeedKeysSG |->
                      init_SG(NewCellSG(0, <<k, 0>>, d[k], v[k]), j[k])]
    /\ next_id = 3
    /\ STEP_COUNTER = 0
    /\ QS_ACTIVE_INHIB = FALSE
    /\ QS_ACTIVE_TOXIN = FALSE
    /\ cells_to_remove = <<>>
    /\ raised = FALSE

UpdateSG ==
    /\ script = "staph_growth"
    /\ STEP_COUNTER < MaxCallsSG
    /\ cells' = update_SG(cells)
    /\ STEP_COUNTER' = STEP_COUNTER + 1
    /\ UNCHANGED <<config, next_id, QS_ACTIVE_INHIB, QS_ACTIVE_TOXIN,
                   cells_to_remove, raised>>

\* the host divides a cell whose divideFlag an update call has set
DivideSG ==
    /\ script = "staph_growth"
    /\ next_id + 1 <= MaxKey
    /\ \E pid \in DOMAIN cells :
         /\ cells[pid].divideFlag
         /\ \E j1, j2 \in JitterSG :
              cells' = split(cells, pid,
                             divide_SG(cells[pid], Daughter(cells[pid]),
                                       Daughter(cells[pid]), j1, j2))
    /\ next_id' = next_id + 2
    /\ UNCHANGED <<config, STEP_COUNTER, QS_ACTIVE_INHIB, QS_ACTIVE_TOXIN,
                   cells_to_remove, raised>>

NextSG ==
    \/ UpdateSG
    \/ DivideSG

SpecSG == InitSG /\ [][NextSG]_vars

-----------------------------------------------------------------------------
(* One update call of either script under every dead lifetime from 0 on: a  *)
(* lifetime of 0 schedules a dead cell for removal at its first visit.       *)

Lifetimes == 0..MaxLifetime

\* an SA and a PA cell on each other or out of range, small or large, and a
\* third cell of any type at the origin
InitLifeContactKill ==
    /\ script = "contact_kill"
    /\ CONTACT_KILLING \in BOOLEAN
    /\ DIFFUSIVE_KILLING = FALSE
    /\ QS_POP_THRESHOLD_INHIB = 1
    /\ QS_POP_THRESHOLD_TOXIN = 1
    /\ \E p1, p2 \in NearFar : \E v1, v2 \in Volumes : \E t3 \in {0, 1, 2} :
         cells = [k \in ScanKeys |->
                    init_contact_kill(
                        NewCell(IF k = 1 THEN 0 ELSE IF k = 2 THEN 1 ELSE t3,
                                IF k = 1 THEN p1 ELSE IF k = 2 THEN p2 ELSE <<0, 0>>,
                                IF k = 1 THEN v1 ELSE IF k = 2 THEN v2 ELSE 100,
                                NoSignals), 0)]

InitLife ==
    /\ DEAD_LIFETIME \in Lifetimes
    /\ script \in Scripts
    /\ CARRYING_CAPACITY = 6
    /\ INHIB_GROWTH_COST = INHIB_GROWTH_COST_DEFAULT
    /\ TOXIN_GROWTH_COST = TOXIN_GROWTH_COST_DEFAULT
    /\ QS_ON_INHIB = QS_ON_INHIB_DEFAULT
    /\ QS_ON_TOXIN = QS_ON_TOXIN_DEFAULT
    /\ InitLifeContactKill \/ InitScanQS
    /\ next_id = 4
    /\ STEP_COUNTER = 0
    /\ QS_ACTIVE_INHIB = FALSE
    /\ QS_ACTIVE_TOXIN = FALSE
    /\ cells_to_remove = <<>>
    /\ raised = FALSE

NextLife ==
    \/ ScanContactKill
    \/ ScanQS

SpecLife == InitLife /\ [][NextLife]_vars

-----------------------------------------------------------------------------
(* The reaction kernels that the host runs for every cell: specRateCL of     *)
(* diffusion_kill_QS.py (intracellular species, membrane exchange) and       *)
(* sigRateCL of diffusion_kill_QS_extracellular.py (secretion straight into  *)
(* the medium).  Concentrations in units, rates in hundredths of a unit per  *)
(* step; the kernel argument area/gridVolume is 1.                           *)

TOXIN_PROD_RATE_PA == 500
INHIB_PROD_RATE_PA == 1000
TOXIN_MEMBRANE_DIFF == 1000
INHIB_MEMBRANE_DIFF == 4000
INHIBITOR_DECAY_IN == 0
INHIBITOR_DECAY_OUT == 1
TOXIN_DECAY_OUT == 0

\* variant: every PA sub-state produces the inhibitor
specRateCL_all_pa(ctype, species, signals) ==
    LET ex_tox == TOXIN_MEMBRANE_DIFF * (signals[1] - species[1])
        ex_inh == INHIB_MEMBRANE_DIFF * (signals[2] - species[2])
                    - INHIBITOR_DECAY_IN * species[2]
    IN  IF ctype = 1
        THEN <<TOXIN_PROD_RATE_PA + ex_tox, INHIB_PROD_RATE_PA + ex_inh>>
        ELSE IF ctype \in {3, 4}
        THEN <<ex_tox, INHIB_PROD_RATE_PA + ex_inh>>
        ELSE <<ex_tox, ex_inh>>

\* rates[0], rates[1] of the intracellular species of one cell
specRateCL(ctype, species, signals) ==
    LET ex_tox == TOXIN_MEMBRANE_DIFF * (signals[1] - species[1])
        ex_inh == INHIB_MEMBRANE_DIFF * (signals[2] - species[2])
                    - INHIBITOR_DECAY_IN * species[2]
    IN  IF ctype = 1
        THEN <<TOXIN_PROD_RATE_PA + ex_tox, INHIB_PROD_RATE_PA + ex_inh>>
        ELSE IF ctype = 4
        THEN <<ex_tox, INHIB_PROD_RATE_PA + ex_inh>>
        ELSE <<ex_tox, ex_inh>>

\* rates[0], rates[1] of the signals at one cell, extracellular script
sigRateCL_extracellular(ctype, signals) ==
    LET r_tox == 0 - TOXIN_DECAY_OUT * signals[1]
        r_inh == 0 - INHIBITOR_DECAY_OUT * signals[2]
    IN  IF ctype = 1
        THEN <<r_tox + TOXIN_PROD_RATE_PA, r_inh + INHIB_PROD_RATE_PA>>
        ELSE IF ctype = 4
        THEN <<r_tox, r_inh + INHIB_PROD_RATE_PA>>
        ELSE <<r_tox, r_inh>>

RateKeys == {1, 2}
RateTypes == {SA_TYPE, PA_TYPE_ACTIVE, DEAD_TYPE, PA_TYPE_SILENT, PA_TYPE_INHIB_ONLY}
RateSpecies == {<<0, 0>>, <<1, 2>>}
RateSignals == {<<0, 0>>, <<2, 1>>}

\* two cells of any type with their pools and readings; no rate computed yet
InitRate ==
    /\ script \in {"diffusion_kill_QS", "diffusion_kill_QS_extracellular"}
    /\ DEAD_LIFETIME = 1
    /\ CARRYING_CAPACITY = 6
    /\ INHIB_GROWTH_COST = INHIB_GROWTH_COST_DEFAULT
    /\ TOXIN_GROWTH_COST = TOXIN_GROWTH_COST_DEFAULT
    /\ QS_ON_INHIB = QS_ON_INHIB_DEFAULT
    /\ QS_ON_TOXIN = QS_ON_TOXIN_DEFAULT
    /\ CONTACT_KILLING = FALSE
    /\ DIFFUSIVE_KILLING = TRUE
    /\ QS_POP_THRESHOLD_INHIB = 1
    /\ QS_POP_THRESHOLD_TOXIN = 1
    /\ \E t \in [RateKeys -> RateTypes] : \E sp \in [RateKeys -> RateSpecies] :
         \E sg \in [RateKeys -> RateSignals] :
           cells = [k \in RateKeys |->
                      [cellType |-> t[k], species |-> sp[k], signals |-> sg[k],
                       rates |-> NoReading]]
    /\ next_id = 3
    /\ STEP_COUNTER = 0
    /\ QS_ACTIVE_INHIB = FALSE
    /\ QS_ACTIVE_TOXIN = FALSE
    /\ cells_to_remove = <<>>
    /\ raised = FALSE

\* the host runs the kernel of the script for one cell
SpecRateOf(k) ==
    /\ script = "diffusion_kill_QS"
    /\ cells[k].rates = NoReading
    /\ cells' = [cells EXCEPT ![k].rates =
                    specRateCL(cells[k].cellType, cells[k].species, cells[k].signals)]
    /\ UNCHANGED <<config, next_id, STEP_COUNTER, QS_ACTIVE_INHIB, QS_ACTIVE_TOXIN,
                   cells_to_remove, raised>>

SigRateOf(k) ==
    /\ script = "diffusion_kill_QS_extracellular"
    /\ cells[k].rates = NoReading
    /\ cells' = [cells EXCEPT ![k].rates =
                    sigRateCL_extracellular(cells[k].cellType, cells[k].signals)]
    /\ UNCHANGED <<config, next_id, STEP_COUNTER, QS_ACTIVE_INHIB, QS_ACTIVE_TOXIN,
                   cells_to_remove, raised>>

SpecRateStep == \E k \in DOMAIN cells : SpecRateOf(k)

SigRateStep == \E k \in DOMAIN cells : SigRateOf(k)

NextRate ==
    \/ SpecRateStep
    \/ SigRateStep

SpecRate == InitRate /\ [][NextRate]_vars

-----------------------------------------------------------------------------
(* Runs of diffusion_kill_QS.py under every setting of the two channel       *)
(* switches QS_ON_INHIB and QS_ON_TOXIN.                                     *)

InitChannel ==
    /\ script = "diffusion_kill_QS"
    /\ DEAD_LIFETIME = 1
    /\ CARRYING_CAPACITY = 3
    /\ INHIB_GROWTH_COST = INHIB_GROWTH_COST_DEFAULT
    /\ TOXIN_GROWTH_COST = TOXIN_GROWTH_COST_DEFAULT
    /\ QS_ON_INHIB \in BOOLEAN
    /\ QS_ON_TOXIN \in BOOLEAN
    /\ CONTACT_KILLING = FALSE
    /\ DIFFUSIVE_KILLING \in BOOLEAN
    /\ QS_POP_THRESHOLD_INHIB \in 1..MaxThreshold
    /\ QS_POP_THRESHOLD_TOXIN \in 1..MaxThreshold
    /\ cells \in [InitKeys -> SeedCells(script, {<<0, 0>>})]
    /\ InitRest

NextChannel ==
    \/ UpdateQS
    \/ DivideQS

SpecChannel == InitChannel /\ [][NextChannel]_vars

-----------------------------------------------------------------------------
(* Properties *)

\* a step of the model that is one update call
UpdateStep == STEP_COUNTER' = STEP_COUNTER + 1

\* a step of the model that is one divide call
DivideStep == next_id' = next_id + 2

\* dx*dx + dy*dy between two cells
Dist2(c1, c2) ==
    (c1.pos[1] - c2.pos[1]) * (c1.pos[1] - c2.pos[1])
      + (c1.pos[2] - c2.pos[2]) * (c1.pos[2] - c2.pos[2])

\* some PA cell (type 1) of the whole population lies within the kill radius
\* of cell k
PaInRange(cs, k) ==
    \E p \in DOMAIN cs : cs[p].cellType = 1 /\ Dist2(cs[k], cs[p]) <= KILL_RADIUS_SQ

\* C1: a dead cell's deadCounter goes up by exactly 1 in every update call; the
\* cell stays in the population while the new count is below DEAD_LIFETIME and
\* is removed by the call in which the count reaches DEAD_LIFETIME, neither a
\* call earlier nor a call later; a cell killed in a call stays, with count 0;
\* no other step touches the count.
C1_DeadLifetime ==
    [][\A k \in DOMAIN cells :
         /\ (UpdateStep /\ cells[k].cellType # DEAD_TYPE)
              => /\ k \in DOMAIN cells'
                 /\ cells'[k].cellType = DEAD_TYPE => cells'[k].deadCounter = 0
         /\ (UpdateStep /\ cells[k].cellType = DEAD_TYPE)
              => IF cells[k].deadCounter + 1 < DEAD_LIFETIME
                 THEN /\ k \in DOMAIN cells'
                      /\ cells'[k].deadCounter = cells[k].deadCounter + 1
                 ELSE /\ cells[k].deadCounter + 1 = DEAD_LIFETIME
                      /\ k \notin DOMAIN cells'
                      /\ k \in Range(cells_to_remove')
         /\ (~UpdateStep /\ cells[k].cellType = DEAD_TYPE)
              => /\ k \in DOMAIN cells'
                 /\ cells'[k].deadCounter = cells[k].deadCounter
      ]_vars

\* a cell killed by call 1 has been removed by call DEAD_LIFETIME + 1, for the
\* longest lifetime of the model
C1_Witness ==
    /\ DEAD_LIFETIME = MaxLifetime
    /\ STEP_COUNTER = DEAD_LIFETIME + 1
    /\ cells_to_remove # <<>>

\* C2: a cell of type dead that is still in the population after a step is
\* still of type dead, whatever the step (update with or without a QS
\* promotion, divide); the daughters of a dead parent are dead.
C2_DeadStaysDead ==
    [][/\ \A k \in DOMAIN cells \cap DOMAIN cells' :
            cells[k].cellType = DEAD_TYPE => cells'[k].cellType = DEAD_TYPE
       /\ \A k \in DOMAIN cells \ DOMAIN cells' :
            (DivideStep /\ cells[k].cellType = DEAD_TYPE)
              => \A d \in DOMAIN cells' \ DOMAIN cells : cells'[d].cellType = DEAD_TYPE
      ]_vars

\* call 1 fired the toxin promotion on a population that held a dead cell
C2_Witness ==
    /\ script = "diffusion_kill_QS"
    /\ STEP_COUNTER = 1
    /\ QS_ACTIVE_TOXIN
    /\ \E k \in DOMAIN cells :
         cells[k].cellType = DEAD_TYPE /\ cells[k].deadCounter = 1

\* C3: with contact killing on, an update call leaves a living SA cell in the
\* population, and dead exactly when some PA cell lies at squared distance
\* <= KILL_RADIUS_SQ from it: the 3x3 grid search decides as the brute-force
\* search over the whole population does.
C3_ContactKillIff ==
    [][(UpdateStep /\ script = "contact_kill" /\ CONTACT_KILLING) =>
         \A k \in DOMAIN cells :
            cells[k].cellType = 0
              => /\ k \in DOMAIN cells'
                 /\ cells'[k].cellType \in {0, 2}
                 /\ cells'[k].cellType = 2 <=> PaInRange(cells, k)
      ]_vars

\* an SA cell killed by the PA cells of other grid cells only, the nearest at
\* exactly the kill radius
C3_Witness ==
    /\ script = "contact_kill"
    /\ STEP_COUNTER = 1
    /\ CONTACT_KILLING
    /\ \E k \in DOMAIN cells :
         /\ cells[k].cellType = 2
         /\ cells[k].deadCounter = 0
         /\ \E p \in DOMAIN cells :
              cells[p].cellType = 1 /\ Dist2(cells[k], cells[p]) = KILL_RADIUS_SQ
         /\ \A p \in DOMAIN cells :
              cells[p].cellType = 1
                => /\ Dist2(cells[k], cells[p]) >= KILL_RADIUS_SQ
                   /\ grid_index(cells[k].pos[1], cells[k].pos[2])
                        # grid_index(cells[p].pos[1], cells[p].pos[2])

\* C4: an SA cell that an update call kills (by contact or by toxin) ends the
\* call in the population with type dead, growthRate 0, divideFlag False and
\* deadCounter 0, whatever its volume and its divideFlag before the call.
C4_KilledCellState ==
    [][UpdateStep =>
         \A k \in DOMAIN cells \cap DOMAIN cells' :
            (cells[k].cellType = SA_TYPE /\ cells'[k].cellType = DEAD_TYPE)
              => /\ cells'[k].growthRate = 0
                 /\ cells'[k].divideFlag = FALSE
                 /\ cells'[k].deadCounter = 0
      ]_vars

\* a cell killed in the last call whose volume is above its targetVol
C4_Witness ==
    /\ STEP_COUNTER >= 1
    /\ \E k \in DOMAIN cells :
         /\ cells[k].cellType = DEAD_TYPE
         /\ cells[k].deadCounter = 0
         /\ cells[k].volume > cells[k].targetVol

\* C5: every dead cell of the population has growthRate 0 and divideFlag
\* False: after every update call and also between the calls, whether it was
\* killed, was dead already, was added dead or is the daughter of a dead parent.
C5_DeadCellsInert ==
    \A k \in DOMAIN cells :
       cells[k].cellType = DEAD_TYPE
         => cells[k].growthRate = 0 /\ cells[k].divideFlag = FALSE

\* after an update call: the dead daughter of a dead parent, next to a cell
\* that was killed with its volume above its targetVol
C5_Witness ==
    /\ STEP_COUNTER >= 1
    /\ next_id > 3
    /\ \E d, k \in DOMAIN cells :
         /\ d >= 3
         /\ cells[d].cellType = DEAD_TYPE
         /\ cells[d].deadCounter >= 1
         /\ k < 3
         /\ cells[k].cellType = DEAD_TYPE
         /\ cells[k].volume > cells[k].targetVol

C7_FlagsLatch ==
    /\ ~QS_ACTIVE_INHIB /\ ~QS_ACTIVE_TOXIN
    /\ [][/\ QS_ACTIVE_INHIB => QS_ACTIVE_INHIB'
          /\ QS_ACTIVE_TOXIN => QS_ACTIVE_TOXIN'
         ]_vars

\* the inhibitor flag was set by call 1 and is still set after the last call,
\* while the toxin flag is still unset
C7_Witness ==
    /\ QS_POP_THRESHOLD_INHIB = 1
    /\ STEP_COUNTER = MaxSteps
    /\ QS_ACTIVE_INHIB
    /\ ~QS_ACTIVE_TOXIN

\* silent < inhibitor-only < active
Activity(ctype) ==
    IF ctype = PA_TYPE_SILENT THEN 0
    ELSE IF ctype = PA_TYPE_INHIB_ONLY THEN 1
    ELSE 2

\* C8: an update call never moves a PA cell to a less active production
\* sub-state (nor away from the PA types), and divide gives both daughters the
\* sub-state of the parent.
C8_NoDemotion ==
    [][/\ UpdateStep =>
            \A k \in DOMAIN cells :
               cells[k].cellType \in PA_TYPES
                 => /\ k \in DOMAIN cells'
                    /\ cells'[k].cellType \in PA_TYPES
                    /\ Activity(cells'[k].cellType) >= Activity(cells[k].cellType)
       /\ DivideStep =>
            \A k \in DOMAIN cells \ DOMAIN cells' :
               /\ DOMAIN cells' \ DOMAIN cells = {next_id, next_id + 1}
               /\ cells[k].cellType \in PA_TYPES
                    => \A d \in DOMAIN cells' \ DOMAIN cells :
                          cells'[d].cellType = cells[k].cellType
      ]_vars

\* a daughter fresh from divide in the inhibitor-only sub-state, which only a
\* promoted parent can have handed down
C8_Witness ==
    /\ script = "diffusion_kill_QS"
    /\ \E d \in DOMAIN cells :
         /\ d >= 3
         /\ cells[d].cellType = PA_TYPE_INHIB_ONLY
         /\ cells[d].growthRate = BaseRate(PA_MU)

\* the sub-state the activation step of one call leaves a PA cell in
Promoted(ctype, fire_i, fire_t) ==
    IF fire_t THEN PA_TYPE_ACTIVE
    ELSE IF fire_i /\ ctype = PA_TYPE_SILENT THEN PA_TYPE_INHIB_ONLY
    ELSE ctype

\* C9: in an update call of the QS script, a channel whose flag is false and
\* whose threshold the PA count at the start of the call reaches sets its flag
\* and promotes the PA cells (silent to inhibitor-only for the inhibitor
\* channel, silent and inhibitor-only to active for the toxin channel) before
\* the per-cell rules run, which the growthRate of the same call shows; a
\* channel whose threshold is not reached leaves its flag and the sub-states as
\* they are.
C9_ThresholdPromotion ==
    [][(UpdateStep /\ script = "diffusion_kill_QS") =>
         LET n_pa == Cardinality({k \in DOMAIN cells : cells[k].cellType \in PA_TYPES})
             fire_i == ~QS_ACTIVE_INHIB /\ n_pa >= QS_POP_THRESHOLD_INHIB
             fire_t == ~QS_ACTIVE_TOXIN /\ n_pa >= QS_POP_THRESHOLD_TOXIN
         IN  /\ QS_ACTIVE_INHIB' = (QS_ACTIVE_INHIB \/ fire_i)
             /\ QS_ACTIVE_TOXIN' = (QS_ACTIVE_TOXIN \/ fire_t)
             /\ \A k \in DOMAIN cells :
                   cells[k].cellType \in PA_TYPES
                     => /\ k \in DOMAIN cells'
                        /\ cells'[k].cellType = Promoted(cells[k].cellType, fire_i, fire_t)
                        /\ cells'[k].growthRate
                             = PA_MU * crowd_factor(Cardinality(DOMAIN cells))
                                     * pa_growth_factor(cells'[k].cellType)
      ]_vars

\* call 1 fired the inhibitor channel only, and the promoted cell grows at the
\* inhibitor-only rate
C9_Witness ==
    /\ script = "diffusion_kill_QS"
    /\ STEP_COUNTER = 1
    /\ QS_ACTIVE_INHIB
    /\ ~QS_ACTIVE_TOXIN
    /\ \E k \in DOMAIN cells :
         /\ cells[k].cellType = PA_TYPE_INHIB_ONLY
         /\ cells[k].growthRate > 0
         /\ cells[k].growthRate = PA_MU * crowd_factor(2) * (10 - INHIB_GROWTH_COST)

\* C10: the population, the set of removed cells and the QS flags that an
\* update call that returns produces are those of the scan in key order,
\* whatever the order in which the scan of the call visits the cells.
C10_OrderIndependent ==
    [][(UpdateStep /\ ~raised') =>
         IF script = "contact_kill"
         THEN \A ref \in {update_contact_kill(cells, items(cells))} :
                 /\ cells' = ref.cells
                 /\ Range(cells_to_remove') = Range(ref.cells_to_remove)
         ELSE \A ref \in {update_QS(cells, items(cells), QS_ACTIVE_INHIB, QS_ACTIVE_TOXIN)} :
                 /\ cells' = ref.cells
                 /\ Range(cells_to_remove') = Range(ref.cells_to_remove)
                 /\ QS_ACTIVE_INHIB' = ref.qs_inhib
                 /\ QS_ACTIVE_TOXIN' = ref.qs_toxin
      ]_vars

\* a call that removed the third cell and killed the SA cell, which the scan
\* in key order visits before the PA cell that is in range of it
C10_Witness ==
    /\ script = "contact_kill"
    /\ CONTACT_KILLING
    /\ STEP_COUNTER = 1
    /\ cells_to_remove = <<3>>
    /\ cells[1].cellType = 2
    /\ cells[1].deadCounter = 0
    /\ cells[2].cellType = 1

\* the dead cells whose deadCounter reaches DEAD_LIFETIME in the next update call
AgedOut(cs) ==
    {k \in DOMAIN cs : cs[k].cellType = DEAD_TYPE /\ cs[k].deadCounter + 1 >= DEAD_LIFETIME}

\* C11: an update call changes the key set only by removing the dead cells
\* whose deadCounter reaches DEAD_LIFETIME in that call: the size drops by
\* their number, no key is added, no live cell and no younger dead cell is
\* lost, and the removal list names each removed key once.
C11_KeySetChange ==
    [][UpdateStep =>
         /\ DOMAIN cells' = DOMAIN cells \ AgedOut(cells)
         /\ Cardinality(DOMAIN cells') = Cardinality(DOMAIN cells) - Cardinality(AgedOut(cells))
         /\ Range(cells_to_remove') = AgedOut(cells)
         /\ Len(cells_to_remove') = Cardinality(AgedOut(cells))
      ]_vars

\* a call that removed two aged-out cells at once and kept a younger dead cell
C11_Witness ==
    /\ Len(cells_to_remove) = 2
    /\ \E d \in DOMAIN cells :
         /\ cells[d].cellType = DEAD_TYPE
         /\ cells[d].deadCounter >= 1

\* the initial segments of a visiting order
Prefixes(order) == {SubSeq(order, 1, n) : n \in 0..Len(order)}

\* the locals of an update call at every point of its scan (contact_kill.py:
\* of its two passes)
MidScan(cs, order) ==
    IF script = "contact_kill"
    THEN IF ~CONTACT_KILLING
         THEN {no_kill_scan(scan_start(cs), p) : p \in Prefixes(order)}
         ELSE {first_pass(scan_start(cs), p) : p \in Prefixes(order)}
              \cup UNION {{second_pass(p1, q) : q \in Prefixes(p1.sa_ids)} :
                            p1 \in {first_pass(scan_start(cs), order)}}
    ELSE UNION {{IF ~DIFFUSIVE_KILLING THEN qs_no_kill_scan(st, p) ELSE qs_kill_scan(st, p) :
                    p \in Prefixes(order)} :
                  st \in {qs_scan_start(cs, qs_activation(cs, QS_ACTIVE_INHIB, QS_ACTIVE_TOXIN))}}

\* C12: at every point of the scan of an update call on a seeded population,
\* in whatever order it visits the cells, the population still holds every cell it held at the
\* start of the call (aged-out cells are only on the removal list), and the
\* spatial index that the neighbour queries of contact_kill.py read holds
\* every PA cell of the population.
C12_RemovalAfterScan ==
    STEP_COUNTER = 0 =>
    \A order \in Orders(DOMAIN cells) :
       /\ \A st \in MidScan(cells, order) :
             /\ DOMAIN st.cells = DOMAIN cells
             /\ Range(st.cells_to_remove) \subseteq AgedOut(cells)
       /\ (script = "contact_kill" /\ CONTACT_KILLING)
            => \A p1 \in {first_pass(scan_start(cells), order)} :
                  \A p \in DOMAIN cells :
                     cells[p].cellType = 1
                       => <<cells[p].pos[1], cells[p].pos[2], p>>
                            \in nearby_pa(p1.pa_grid, cells[p].pos[1], cells[p].pos[2])

\* a call of contact_kill.py that collected and removed the third cell and whose
\* neighbour query left the SA cell alive
C12_Witness ==
    /\ script = "contact_kill"
    /\ CONTACT_KILLING
    /\ STEP_COUNTER = 1
    /\ cells_to_remove = <<3>>
    /\ cells[1].cellType = 0
    /\ cells[2].cellType = 1

\* C13: the crowding factor is 0 when the population size equals
\* CARRYING_CAPACITY and when it exceeds it, so that the update call gives
\* every living cell growthRate 0 and none a negative rate, and it is 1 (the
\* whole of its denominator) for an empty population.
C13_CrowdingBoundary ==
    [][(UpdateStep /\ ~raised') =>
         /\ crowd_factor(CARRYING_CAPACITY) = 0
         /\ crowd_factor(CARRYING_CAPACITY + 1) = 0
         /\ crowd_factor(0) = CrowdDen
         /\ \A k \in DOMAIN cells' :
               /\ cells'[k].growthRate >= 0
               /\ Cardinality(DOMAIN cells) >= CARRYING_CAPACITY
                    => cells'[k].growthRate = 0
      ]_vars

\* after a call on a population of exactly its capacity: a living SA and a
\* living PA cell, both large enough to divide, with growthRate 0
C13_Witness ==
    /\ STEP_COUNTER = 1
    /\ CARRYING_CAPACITY = Cardinality(ScanKeys)
    /\ cells[1].cellType = SA_TYPE
    /\ cells[1].divideFlag
    /\ cells[1].growthRate = 0
    /\ cells[2].cellType \in PA_TYPES
    /\ cells[2].divideFlag
    /\ cells[2].growthRate = 0

\* the species rate and the cost or inhibition factor (in tenths) that the
\* growth rule of the call applies to a living cell
GrowthTerms(c, qs_active_inhib) ==
    IF script = "contact_kill"
    THEN IF c.cellType = 0 THEN SA_MU * 10 ELSE PA_MU * 10
    ELSE IF c.cellType = SA_TYPE
         THEN SA_MU * inhibitor_growth_factor(c.signals[2], qs_active_inhib)
         ELSE PA_MU * pa_growth_factor(c.cellType)

\* C14: the growthRate that an update call gives a living cell is its growth
\* terms times one crowding factor, the one of the population size at the
\* start of the call, which counts the dead cells and among them those that
\* the same call removes.
C14_CrowdingOncePerCall ==
    [][(UpdateStep /\ ~raised') =>
         \A k \in DOMAIN cells' :
            cells'[k].cellType # DEAD_TYPE
              => cells'[k].growthRate
                   = crowd_factor(Cardinality(DOMAIN cells))
                       * GrowthTerms(cells'[k], QS_ACTIVE_INHIB')
      ]_vars

\* a call without killing that removed the third cell: both living cells grow
\* at the rate of a population of three, not of two
C14_Witness ==
    /\ script = "contact_kill"
    /\ ~CONTACT_KILLING
    /\ STEP_COUNTER = 1
    /\ cells_to_remove = <<3>>
    /\ cells[1].growthRate = SA_MU * crowd_factor(3) * 10
    /\ cells[2].growthRate = PA_MU * crowd_factor(3) * 10
    /\ crowd_factor(3) # crowd_factor(2)

\* the cell types that a comparison of the script names
RecognisedTypes(s) == IF s = "contact_kill" THEN {0, 1, 2}
                      ELSE {SA_TYPE, DEAD_TYPE} \cup PA_TYPES

\* C15: an update call returns, and leaves every cell whose cellType no rule
\* of the script names with growthRate 0 and divideFlag False.
C15_UnrecognisedFailSafe ==
    [][UpdateStep =>
         /\ ~raised'
         /\ \A k \in DOMAIN cells' :
               cells'[k].cellType \notin RecognisedTypes(script)
                 => cells'[k].growthRate = 0 /\ ~cells'[k].divideFlag
      ]_vars

\* after an update call, a cell of an unrecognised type that has outgrown its
\* target volume next to a living cell that the call has told to divide
C15_Witness ==
    /\ STEP_COUNTER >= 1
    /\ ~raised
    /\ \E k, l \in DOMAIN cells :
         /\ cells[k].cellType = UnrecognisedType
         /\ cells[k].volume > cells[k].targetVol
         /\ cells[k].growthRate = 0
         /\ ~cells[k].divideFlag
         /\ cells[l].cellType \in RecognisedTypes(script) \ {DEAD_TYPE}
         /\ cells[l].divideFlag

\* C16: an update call of diffusion_kill_QS.py on cells without readings
\* returns, and treats the concentrations as zero: every SA cell stays alive
\* and grows at the uninhibited rate.
C16_MissingReadingAsZero ==
    [][(UpdateStep /\ script = "diffusion_kill_QS"
          /\ \A k \in DOMAIN cells : cells[k].signals = NoReading) =>
         /\ ~raised'
         /\ \A k \in DOMAIN cells :
               cells[k].cellType = SA_TYPE
                 => /\ k \in DOMAIN cells'
                    /\ cells'[k].cellType = SA_TYPE
                    /\ cells'[k].growthRate
                         = Rate(SA_MU, crowd_factor(Cardinality(DOMAIN cells)), 10)
      ]_vars

\* the parent of a divide step: the key that the step takes out of the population
ParentOf(pid) == pid \in DOMAIN cells /\ pid \notin DOMAIN cells'

\* C17: a divide step whose parent is dead does not put two daughters tagged
\* dead with deadCounter 0 and divideFlag False into the population.
C17_DeadParentGuarded ==
    [][(DivideStep /\ \E pid \in DOMAIN cells :
                         ParentOf(pid) /\ cells[pid].cellType = DEAD_TYPE) =>
         ~ \A d \in {next_id, next_id + 1} :
              /\ d \in DOMAIN cells'
              /\ cells'[d].cellType = DEAD_TYPE
              /\ cells'[d].deadCounter = 0
              /\ ~cells'[d].divideFlag
      ]_vars

\* C18: a divide step gives both daughters the cellType of the parent, each
\* PA sub-state included.
C18_DaughtersKeepType ==
    [][DivideStep =>
         \A pid \in DOMAIN cells :
            ParentOf(pid)
              => \A d \in {next_id, next_id + 1} :
                    d \in DOMAIN cells' /\ cells'[d].cellType = cells[pid].cellType
      ]_vars

\* the two daughters of an inhibitor-only PA parent, fresh from divide
C18_Witness ==
    /\ script = "diffusion_kill_QS"
    /\ QS_ACTIVE_INHIB
    /\ ~QS_ACTIVE_TOXIN
    /\ \A d \in {next_id - 2, next_id - 1} :
          /\ d \in DOMAIN cells
          /\ d \notin InitKeys
          /\ cells[d].cellType = PA_TYPE_INHIB_ONLY
          /\ cells[d].growthRate = BaseRate(PA_MU)

\* the base rate and the target-volume interval of a living cell type
BaseRateOf(ctype) == IF ctype = SA_TYPE THEN BaseRate(SA_MU) ELSE BaseRate(PA_MU)

\* the upper end of the range of random.uniform
JitterMax(js) == CHOOSE j \in js : \A i \in js : i <= j

TargetVols(ctype) ==
    IF ctype = SA_TYPE
    THEN DIV_LENGTH_MEAN_SA .. DIV_LENGTH_MEAN_SA + JitterMax(JitterSA)
    ELSE DIV_LENGTH_MEAN_PA .. DIV_LENGTH_MEAN_PA + JitterMax(JitterPA)

\* C19: a divide step with a living parent gives each daughter the base rate
\* of its species, whatever rate the parent had, and a target volume within
\* [mean, mean + jitterMax] of its species; in a lineage this holds for the
\* daughters of the seed and for the daughters of its daughters.
C19_DaughterDefaults ==
    [][DivideStep =>
         \A pid \in DOMAIN cells :
            (ParentOf(pid) /\ cells[pid].cellType \in {SA_TYPE} \cup PA_TYPES)
              => \A d \in {next_id, next_id + 1} :
                    /\ d \in DOMAIN cells'
                    /\ cells'[d].growthRate = BaseRateOf(cells[pid].cellType)
                    /\ cells'[d].targetVol \in TargetVols(cells[pid].cellType)
      ]_vars

\* the daughters of a daughter of the seed, fresh from divide: both at the
\* base rate, each with its own jitter
C19_Witness ==
    /\ next_id = 5
    /\ DOMAIN cells \cap {3, 4} = {3, 4}
    /\ cells[3].cellType = SA_TYPE /\ cells[4].cellType = SA_TYPE
    /\ cells[3].growthRate = BaseRate(SA_MU)
    /\ cells[4].growthRate = BaseRate(SA_MU)
    /\ cells[3].targetVol # cells[4].targetVol
    /\ \E k \in DOMAIN cells \ {3, 4} : cells[k].growthRate < BaseRateOf(cells[k].cellType)

C21_SurvivorGrowth ==
    [][(UpdateStep /\ ~raised') =>
         \A k \in DOMAIN cells' :
            cells'[k].cellType \in RecognisedTypes(script) \ {DEAD_TYPE}
              => /\ cells'[k].growthRate
                      = crowd_factor(Cardinality(DOMAIN cells))
                          * GrowthTerms(cells'[k], QS_ACTIVE_INHIB')
                 /\ cells'[k].divideFlag = (cells'[k].volume > cells'[k].targetVol)
      ]_vars

\* after the second update call: an SA cell exactly at its target volume with
\* divideFlag False next to a cell told to divide
C21_Witness ==
    /\ script = "diffusion_kill_QS"
    /\ STEP_COUNTER = 2
    /\ \E k, l \in DOMAIN cells :
         /\ cells[k].cellType = SA_TYPE
         /\ cells[k].volume = cells[k].targetVol
         /\ ~cells[k].divideFlag
         /\ cells[k].growthRate > 0
         /\ cells[k].growthRate < BaseRate(SA_MU)
         /\ cells[l].volume > cells[l].targetVol
         /\ cells[l].divideFlag

\* C22: an update call of diffusion_kill_QS.py gives every SA cell alive after
\* it the rate base x crowding x max(0, 1 - INHIB_EFFECT_STRENGTH x signals[1]),
\* whether or not the inhibitor quorum-sensing flag is active.
C22_InhibitionUngated ==
    [][(UpdateStep /\ ~raised' /\ script = "diffusion_kill_QS" /\ INHIBITOR_ON) =>
         \A k \in DOMAIN cells' :
            cells'[k].cellType = SA_TYPE
              => cells'[k].growthRate
                   = Rate(SA_MU, crowd_factor(Cardinality(DOMAIN cells)),
                          Max0(10 - INHIB_EFFECT_STRENGTH * cells'[k].signals[2]))
      ]_vars

\* max(0, 1 - strength x concentration) of diffusion_kill.py, in tenths
InhibitionFactor(inh_conc) ==
    IF 10 - INHIB_EFFECT_STRENGTH_DK * inh_conc > 0
    THEN 10 - INHIB_EFFECT_STRENGTH_DK * inh_conc ELSE 0

\* C23: an update call of diffusion_kill.py leaves every SA cell that the
\* toxin does not kill alive with the rate base x crowding x
\* max(0, 1 - strength x concentration); the factor is 1 at concentration 0,
\* 0 from concentration 1/strength on and never negative.
C23_InhibitionFactor ==
    [][UpdateStep =>
         \A k \in DOMAIN cells :
            (cells[k].cellType = 0
               /\ (~DIFFUSIVE_KILLING \/ cells[k].signals[1] < TOXIN_KILL_THRESHOLD_DK))
              => /\ k \in DOMAIN cells'
                 /\ cells'[k].cellType = 0
                 /\ cells'[k].growthRate
                      = SA_MU * crowd_factor(Cardinality(DOMAIN cells))
                          * InhibitionFactor(cells[k].signals[2])
                 /\ cells'[k].growthRate >= 0
                 /\ cells[k].signals[2] = 0
                      => cells'[k].growthRate
                           = SA_MU * crowd_factor(Cardinality(DOMAIN cells)) * 10
                 /\ INHIB_EFFECT_STRENGTH_DK * cells[k].signals[2] >= 10
                      => cells'[k].growthRate = 0
      ]_vars

\* an SA cell below the kill threshold and at inhibitor concentration
\* 1/strength, alive after a call with killing on, with growthRate 0 in a
\* population below its capacity
C23_Witness ==
    /\ script = "diffusion_kill"
    /\ DIFFUSIVE_KILLING
    /\ STEP_COUNTER = 1
    /\ ~raised
    /\ Cardinality(DOMAIN cells) < CARRYING_CAPACITY
    /\ cells[1].cellType = 0
    /\ cells[1].signals[1] < TOXIN_KILL_THRESHOLD_DK
    /\ INHIB_EFFECT_STRENGTH_DK * cells[1].signals[2] = 10
    /\ cells[1].growthRate = 0
    /\ cells[2].cellType = 1
    /\ cells[2].growthRate > 0

\* 1 minus the costs that the sub-state pays, floored at zero, in tenths
CostFactor(ctype) ==
    LET cost == IF ctype = PA_TYPE_INHIB_ONLY THEN INHIB_GROWTH_COST
                ELSE IF ctype = PA_TYPE_ACTIVE
                THEN INHIB_GROWTH_COST + TOXIN_GROWTH_COST ELSE 0
    IN  IF cost >= 10 THEN 0 ELSE 10 - cost

\* C24: an update call gives every PA cell the rate base x crowding x the
\* cost factor of the sub-state it is in after the promotions of the call,
\* whatever its volume and flags; for all the non-negative costs the factors
\* are ordered 1 = silent >= inhibitor-only >= toxin-active >= 0, and 0 when
\* the costs sum to 1 or more.
C24_CostFactorOrdered ==
    [][(UpdateStep /\ ~raised') =>
         /\ \A k \in DOMAIN cells' :
               cells'[k].cellType \in PA_TYPES
                 => cells'[k].growthRate
                      = PA_MU * crowd_factor(Cardinality(DOMAIN cells))
                          * CostFactor(cells'[k].cellType)
         /\ pa_growth_factor(PA_TYPE_SILENT) = 10
         /\ pa_growth_factor(PA_TYPE_SILENT) >= pa_growth_factor(PA_TYPE_INHIB_ONLY)
         /\ pa_growth_factor(PA_TYPE_INHIB_ONLY) >= pa_growth_factor(PA_TYPE_ACTIVE)
         /\ pa_growth_factor(PA_TYPE_ACTIVE) >= 0
         /\ INHIB_GROWTH_COST + TOXIN_GROWTH_COST >= 10
              => pa_growth_factor(PA_TYPE_ACTIVE) = 0
      ]_vars

\* after a call that promoted the PA cells to toxin-active under costs that
\* sum to more than 1, each below 1: the cells do not grow, in a population
\* below its capacity
C24_Witness ==
    /\ STEP_COUNTER = 1
    /\ INHIB_GROWTH_COST < 10 /\ TOXIN_GROWTH_COST < 10
    /\ INHIB_GROWTH_COST + TOXIN_GROWTH_COST > 10
    /\ Cardinality(DOMAIN cells) < CARRYING_CAPACITY
    /\ cells[2].cellType = PA_TYPE_ACTIVE
    /\ cells[2].growthRate = 0
    /\ cells[1].cellType = SA_TYPE
    /\ cells[1].growthRate > 0

\* C25: in an update call of simulation.py no living cell of the call becomes
\* dead when both toggles are off, whatever its position and toxin; with
\* contact killing alone an SA cell dies exactly when a PA cell is within the
\* kill radius, with diffusive killing alone exactly when its toxin is at or
\* above the threshold; a PA cell never dies.
C25_KillToggles ==
    [][UpdateStep =>
         \A k \in DOMAIN cells :
            cells[k].cellType \in {0, 1}
              => /\ k \in DOMAIN cells'
                 /\ cells'[k].cellType \in {cells[k].cellType, 2}
                 /\ cells[k].cellType = 1 => cells'[k].cellType = 1
                 /\ (~CONTACT_KILLING /\ ~DIFFUSIVE_KILLING)
                      => cells'[k].cellType = cells[k].cellType
                 /\ (cells[k].cellType = 0 /\ CONTACT_KILLING /\ ~DIFFUSIVE_KILLING)
                      => (cells'[k].cellType = 2 <=> PaInRange(cells, k))
                 /\ (cells[k].cellType = 0 /\ ~CONTACT_KILLING /\ DIFFUSIVE_KILLING)
                      => (cells'[k].cellType = 2
                            <=> cells[k].species[1] >= TOXIN_KILL_THRESHOLD_SIM)
      ]_vars

\* after a call with both toggles off: the SA cell is alive and growing with
\* its toxin above the threshold and the PA cell on top of it
C25_Witness ==
    /\ script = "simulation"
    /\ ~CONTACT_KILLING /\ ~DIFFUSIVE_KILLING
    /\ STEP_COUNTER = 1
    /\ cells[1].cellType = 0
    /\ cells[1].species[1] > TOXIN_KILL_THRESHOLD_SIM
    /\ cells[1].growthRate > 0
    /\ cells[2].cellType = 1
    /\ Dist2(cells[1], cells[2]) = 0

\* C26: the PRINT_EVERY-th update call of diffusion_kill.py returns, and
\* leaves the population and the removal list of its scan and removal
\* whatever the composition of the population.
C26_DiagnosticsObserveOnly ==
    [][(UpdateStep /\ script = "diffusion_kill"
          /\ STEP_COUNTER' % PRINT_EVERY = 0) =>
         /\ ~raised'
         /\ \A r \in {scan_and_remove_DK(cells, items(cells))} :
               /\ cells' = r.cells
               /\ cells_to_remove' = r.cells_to_remove
      ]_vars

\* C27: an update call of staph_growth.py leaves the position, the direction
\* and the volume of every cell as they were before the call.
C27_GeometryUntouched ==
    [][(UpdateStep /\ script = "staph_growth") =>
         \A k \in DOMAIN cells :
            /\ cells'[k].pos = cells[k].pos
            /\ cells'[k].dir = cells[k].dir
            /\ cells'[k].volume = cells[k].volume
      ]_vars

\* C28: whatever DEAD_LIFETIME >= 0, an update call neither lists for removal
\* nor removes a cell that was alive when the call began: a cell the call
\* kills stays in the population, dead, with deadCounter 0.
C28_NoKillAndRemove ==
    [][UpdateStep =>
         \A k \in DOMAIN cells :
            cells[k].cellType # DEAD_TYPE =>
               /\ k \notin Range(cells_to_remove')
               /\ k \in DOMAIN cells'
               /\ cells'[k].cellType = DEAD_TYPE => cells'[k].deadCounter = 0
      ]_vars

\* a call under DEAD_LIFETIME = 0 that removed the cell added dead and killed
\* an SA cell, which is still in the population
C28_Witness ==
    /\ STEP_COUNTER = 1
    /\ DEAD_LIFETIME = 0
    /\ ~raised
    /\ cells_to_remove # <<>>
    /\ \E k \in DOMAIN cells :
          cells[k].cellType = DEAD_TYPE /\ cells[k].deadCounter = 0

\* the evaluations of single cells that an update call can make from a point
\* of its scan: the cell and the locals after its evaluation
Evaluations(st) ==
    IF script = "contact_kill"
    THEN IF ~CONTACT_KILLING
         THEN {[cid |-> k, after |-> no_kill_step(st, k)] : k \in DOMAIN st.cells}
         ELSE {[cid |-> k, after |-> first_pass_step(st, k)] : k \in DOMAIN st.cells}
              \cup {[cid |-> k, after |-> sa_step(st, k)] : k \in Range(st.sa_ids)}
    ELSE IF st.raised THEN {}
    ELSE IF ~DIFFUSIVE_KILLING
         THEN {[cid |-> k, after |-> qs_no_kill_step(st, k)] : k \in DOMAIN st.cells}
         ELSE {[cid |-> k, after |-> qs_kill_step(st, k)] : k \in DOMAIN st.cells}

\* the two cells differ at most in the fields an evaluation writes
OwnFieldsOnly(before, after) ==
    after = [before EXCEPT !.cellType = after.cellType,
                           !.growthRate = after.growthRate,
                           !.divideFlag = after.divideFlag,
                           !.color = after.color,
                           !.deadCounter = after.deadCounter]

\* C29: at every point of the scan of an update call, in whatever order it
\* visits the cells, the evaluation of one cell leaves every other cell as it
\* was and changes of the evaluated cell at most cellType, growthRate,
\* divideFlag, color and deadCounter; a contact kill leaves the PA cells as
\* they were.
C29_OwnFieldsOnly ==
    STEP_COUNTER = 0 =>
    \A order \in Orders(DOMAIN cells) :
       \A st \in MidScan(cells, order) :
          \A e \in Evaluations(st) :
             /\ DOMAIN e.after.cells = DOMAIN st.cells
             /\ \A j \in (DOMAIN st.cells) \ {e.cid} : e.after.cells[j] = st.cells[j]
             /\ OwnFieldsOnly(st.cells[e.cid], e.after.cells[e.cid])

\* a population handed to contact_kill.py whose scan comes to evaluate an SA
\* cell that a PA cell in range kills
C29_Witness ==
    /\ STEP_COUNTER = 0
    /\ script = "contact_kill"
    /\ CONTACT_KILLING
    /\ \E order \in Orders(DOMAIN cells) :
          \E st \in MidScan(cells, order) :
             \E e \in Evaluations(st) :
                /\ st.cells[e.cid].cellType = SA_TYPE
                /\ e.after.cells[e.cid].cellType = DEAD_TYPE
                /\ PaInRange(st.cells, e.cid)

\* the changes of cellType that the rules make: an SA cell dies, a silent PA
\* cell starts to produce, an inhibitor-only PA cell becomes toxin-active
TypeChanges ==
    {<<SA_TYPE, DEAD_TYPE>>, <<PA_TYPE_SILENT, PA_TYPE_INHIB_ONLY>>,
     <<PA_TYPE_SILENT, PA_TYPE_ACTIVE>>, <<PA_TYPE_INHIB_ONLY, PA_TYPE_ACTIVE>>}

\* C30: from a population of recognised cellTypes, every update and divide
\* call leaves a population of recognised cellTypes, and a cell that is in
\* the population before and after the call either keeps its cellType or
\* goes from SA to dead, from silent to inhibitor-only, or from silent or
\* inhibitor-only to toxin-active.
C30_RecognisedTypesOnly ==
    [][(\A k \in DOMAIN cells : cells[k].cellType \in RecognisedTypes(script)) =>
         /\ \A k \in DOMAIN cells' : cells'[k].cellType \in RecognisedTypes(script)
         /\ \A k \in DOMAIN cells \cap DOMAIN cells' :
               \/ cells'[k].cellType = cells[k].cellType
               \/ <<cells[k].cellType, cells'[k].cellType>> \in TypeChanges
      ]_vars

\* a population of the QS script after a division in which one cell has been
\* killed and another has gone from silent to toxin-active
C30_Witness ==
    /\ script = "diffusion_kill_QS"
    /\ QS_ACTIVE_TOXIN
    /\ next_id > 3
    /\ \E k \in DOMAIN cells : cells[k].cellType = DEAD_TYPE
    /\ \E k \in DOMAIN cells : cells[k].cellType = PA_TYPE_ACTIVE

\* the part of a computed rate that is not secretion: membrane exchange and
\* decay (QS script), decay (extracellular script)
NonSecretion(c) ==
    IF script = "diffusion_kill_QS"
    THEN <<TOXIN_MEMBRANE_DIFF * (c.signals[1] - c.species[1]),
           INHIB_MEMBRANE_DIFF * (c.signals[2] - c.species[2])
             - INHIBITOR_DECAY_IN * c.species[2]>>
    ELSE <<0 - TOXIN_DECAY_OUT * c.signals[1], 0 - INHIBITOR_DECAY_OUT * c.signals[2]>>

\* pa_growth_factor charges the sub-state the cost of the inhibitor, of the toxin
PaysInhibCost(ctype) ==
    ctype \in PA_TYPES /\ pa_growth_factor(ctype) <= 10 - INHIB_GROWTH_COST

PaysToxinCost(ctype) ==
    ctype \in PA_TYPES
      /\ pa_growth_factor(ctype) = 10 - INHIB_GROWTH_COST - TOXIN_GROWTH_COST

\* C31: the rates that a reaction kernel gives a cell hold the constant
\* secretion term of the toxin exactly for a toxin-active PA cell and that of
\* the inhibitor exactly for a toxin-active or inhibitor-only PA cell, and no
\* secretion term for a silent PA, an SA or a dead cell: a cell secretes a
\* molecule exactly when pa_growth_factor charges its type the cost of that
\* molecule.
C31_SecretionGated ==
    \A k \in DOMAIN cells :
       (script \in {"diffusion_kill_QS", "diffusion_kill_QS_extracellular"}
          /\ cells[k].rates # NoReading) =>
         \A c \in {cells[k]} : \A rest \in {NonSecretion(cells[k])} :
            /\ c.rates[1] - rest[1]
                 = (IF c.cellType = PA_TYPE_ACTIVE THEN TOXIN_PROD_RATE_PA ELSE 0)
            /\ c.rates[2] - rest[2]
                 = (IF c.cellType \in {PA_TYPE_ACTIVE, PA_TYPE_INHIB_ONLY}
                    THEN INHIB_PROD_RATE_PA ELSE 0)
            /\ (c.rates[1] - rest[1] > 0) <=> PaysToxinCost(c.cellType)
            /\ (c.rates[2] - rest[2] > 0) <=> PaysInhibCost(c.cellType)

\* the kernel of the QS script has run for an inhibitor-only PA cell in a
\* toxin gradient and for a silent PA cell
C31_Witness ==
    /\ script = "diffusion_kill_QS"
    /\ cells[1].cellType = PA_TYPE_INHIB_ONLY
    /\ cells[1].rates # NoReading
    /\ cells[1].signals # cells[1].species
    /\ cells[2].cellType = PA_TYPE_SILENT
    /\ cells[2].rates # NoReading

\* the one sub-state that the two flags leave the PA cells in
FlagSubState(qs_inhib, qs_toxin) ==
    IF qs_toxin THEN PA_TYPE_ACTIVE
    ELSE IF qs_inhib THEN PA_TYPE_INHIB_ONLY ELSE PA_TYPE_SILENT

\* C32: in every population that update and divide calls of the QS script
\* reach from seeded silent PA cells and false flags, every PA cell is in the
\* sub-state of the flags: silent under no flag, inhibitor-only under the
\* inhibitor flag alone, toxin-active under the toxin flag.
C32_SubStateOfFlags ==
    script = "diffusion_kill_QS" =>
       \A k \in DOMAIN cells :
          cells[k].cellType \in PA_TYPES
            => cells[k].cellType = FlagSubState(QS_ACTIVE_INHIB, QS_ACTIVE_TOXIN)

\* the inhibitor flag alone is set and a PA cell has divided since: the
\* population holds daughters, every PA cell inhibitor-only
C32_Witness ==
    /\ script = "diffusion_kill_QS"
    /\ QS_ACTIVE_INHIB
    /\ ~QS_ACTIVE_TOXIN
    /\ \E d \in DOMAIN cells :
          d \notin InitKeys /\ cells[d].cellType = PA_TYPE_INHIB_ONLY

\* C33: an update call of the QS script that starts with both flags false
\* and a PA count at or above both thresholds ends with both flags true and
\* with every PA cell toxin-active: the cells that the inhibitor channel has
\* just made inhibitor-only are promoted again in the same call.
C33_BothChannelsInOneCall ==
    [][(/\ UpdateStep
        /\ script = "diffusion_kill_QS"
        /\ ~QS_ACTIVE_INHIB /\ ~QS_ACTIVE_TOXIN
        /\ count_pa(cells) >= QS_POP_THRESHOLD_INHIB
        /\ count_pa(cells) >= QS_POP_THRESHOLD_TOXIN) =>
         /\ QS_ACTIVE_INHIB' /\ QS_ACTIVE_TOXIN'
         /\ \A k \in DOMAIN cells :
               cells[k].cellType \in PA_TYPES
                 => k \in DOMAIN cells' /\ cells'[k].cellType = PA_TYPE_ACTIVE
         /\ \A k \in DOMAIN cells' :
               cells'[k].cellType \notin {PA_TYPE_SILENT, PA_TYPE_INHIB_ONLY}
      ]_vars

\* after the first call on two silent PA cells under thresholds 1 and 2: both
\* flags set, both cells toxin-active
C33_Witness ==
    /\ script = "diffusion_kill_QS"
    /\ STEP_COUNTER = 1
    /\ QS_POP_THRESHOLD_INHIB = 1 /\ QS_POP_THRESHOLD_TOXIN = 2
    /\ QS_ACTIVE_INHIB /\ QS_ACTIVE_TOXIN
    /\ Cardinality({k \in DOMAIN cells : cells[k].cellType = PA_TYPE_ACTIVE}) = 2

\* C34: an update call of the QS script that moves a PA cell to a new
\* sub-state gives the cell, in that call, the rate PA_MU x crowding x the
\* cost factor of the new sub-state.
C34_RateOfNewSubState ==
    [][(UpdateStep /\ script = "diffusion_kill_QS" /\ ~raised') =>
         \A k \in DOMAIN cells \cap DOMAIN cells' :
            (cells[k].cellType \in PA_TYPES
               /\ cells'[k].cellType # cells[k].cellType)
              => cells'[k].growthRate
                   = PA_MU * crowd_factor(Cardinality(DOMAIN cells))
                           * CostFactor(cells'[k].cellType)
      ]_vars

\* the first call has fired the inhibitor channel alone under the costs of
\* the script: the promoted cell grows at 0.8 of the crowded base rate, the
\* silent rate being the full one
C34_Witness ==
    /\ script = "diffusion_kill_QS"
    /\ STEP_COUNTER = 1
    /\ ~raised
    /\ QS_ACTIVE_INHIB /\ ~QS_ACTIVE_TOXIN
    /\ INHIB_GROWTH_COST = INHIB_GROWTH_COST_DEFAULT
    /\ cells[2].cellType = PA_TYPE_INHIB_ONLY
    /\ cells[2].growthRate = PA_MU * crowd_factor(3) * 8
    /\ cells[2].growthRate < PA_MU * crowd_factor(3) * 10

\* C35: an update call leaves every PA cell in the population and a PA
\* cell, the cells it makes dead were SA cells, and no step, update or
\* divide, lowers the number of PA cells.
C35_PaNeverDies ==
    [][/\ UpdateStep =>
            /\ \A k \in DOMAIN cells :
                  cells[k].cellType \in PA_TYPES
                    => k \in DOMAIN cells' /\ cells'[k].cellType # DEAD_TYPE
            /\ \A k \in DOMAIN cells \cap DOMAIN cells' :
                  (cells'[k].cellType = DEAD_TYPE /\ cells[k].cellType # DEAD_TYPE)
                    => cells[k].cellType = SA_TYPE
            /\ Cardinality({k \in DOMAIN cells' : cells'[k].cellType = DEAD_TYPE})
                 <= Cardinality({k \in DOMAIN cells : cells[k].cellType \in {DEAD_TYPE, SA_TYPE}})
       /\ count_pa(cells') >= count_pa(cells)
      ]_vars

\* a later call of a run of the QS script has removed a killed SA cell, and
\* a PA cell that reads toxin at the kill threshold is alive
C35_Witness ==
    /\ script = "diffusion_kill_QS"
    /\ STEP_COUNTER >= 2
    /\ cells_to_remove # <<>>
    /\ \E k \in DOMAIN cells :
          /\ cells[k].cellType \in PA_TYPES
          /\ cells[k].signals[1] >= TOXIN_KILL_THRESHOLD

\* C36: in every run of the QS script from false flags, a flag is true only
\* if its channel is switched on and the population holds at least as many
\* PA cells as the threshold of the channel (a switched-off channel never
\* sets its flag), and an update call that starts with a PA count at or
\* above the threshold of a switched-on channel ends with the flag of that
\* channel true.
C36_FlagsFollowChannels ==
    /\ []( /\ QS_ACTIVE_INHIB
                => (QS_ON_INHIB /\ count_pa(cells) >= QS_POP_THRESHOLD_INHIB)
           /\ QS_ACTIVE_TOXIN
                => (QS_ON_TOXIN /\ count_pa(cells) >= QS_POP_THRESHOLD_TOXIN) )
    /\ [][UpdateStep =>
             ( /\ (QS_ON_INHIB /\ count_pa(cells) >= QS_POP_THRESHOLD_INHIB)
                    => QS_ACTIVE_INHIB'
               /\ (QS_ON_TOXIN /\ count_pa(cells) >= QS_POP_THRESHOLD_TOXIN)
                    => QS_ACTIVE_TOXIN' )
         ]_vars

\* the toxin channel is switched off and its threshold reached by a PA
\* population that has grown by a division: the inhibitor flag alone is set
C36_Witness ==
    /\ QS_ON_INHIB /\ ~QS_ON_TOXIN
    /\ STEP_COUNTER >= 2
    /\ next_id > 3
    /\ count_pa(cells) >= QS_POP_THRESHOLD_TOXIN
    /\ count_pa(cells) >= QS_POP_THRESHOLD_INHIB
    /\ QS_ACTIVE_INHIB /\ ~QS_ACTIVE_TOXIN

\* C37: in every population left by an update call that returned, and by
\* the divisions after it, a living cell has deadCounter 0 and a dead cell
\* has a deadCounter from 0 to DEAD_LIFETIME - 1.
C37_DeadCounterRange ==
    (STEP_COUNTER >= 1 /\ ~raised) =>
       \A k \in DOMAIN cells :
          IF cells[k].cellType = DEAD_TYPE
          THEN 0 <= cells[k].deadCounter /\ cells[k].deadCounter < DEAD_LIFETIME
          ELSE cells[k].deadCounter = 0

\* under DEAD_LIFETIME = 2, a dead cell that has been counted once is still
\* in the population, next to a living cell
C37_Witness ==
    /\ STEP_COUNTER >= 2
    /\ ~raised
    /\ DEAD_LIFETIME = 2
    /\ \E k \in DOMAIN cells :
          cells[k].cellType = DEAD_TYPE /\ cells[k].deadCounter = 1
    /\ \E k \in DOMAIN cells : cells[k].cellType # DEAD_TYPE

\* C38: after an update call that returned, under readings >= 0 and a
\* capacity > 0, the growthRate of every cell is at least 0 and at most the
\* base rate of its species (SA_MU for an SA cell, PA_MU for a PA cell of
\* any sub-state; a dead cell has rate 0), whatever the crowding, the cost
\* and the inhibition.
C38_RateWithinBase ==
    (STEP_COUNTER >= 1 /\ ~raised /\ CARRYING_CAPACITY > 0) =>
       \A k \in DOMAIN cells :
          /\ cells[k].growthRate >= 0
          /\ cells[k].growthRate
               <= (IF cells[k].cellType = DEAD_TYPE THEN 0
                   ELSE BaseRateOf(cells[k].cellType))

\* a call under an active inhibitor flag, on a population below its
\* capacity, left the SA cell that reads more inhibitor than full inhibition
\* takes without growth
C38_Witness ==
    /\ script = "diffusion_kill_QS"
    /\ STEP_COUNTER = 1
    /\ ~raised
    /\ QS_ACTIVE_INHIB
    /\ CARRYING_CAPACITY > Cardinality(DOMAIN cells)
    /\ cells[1].cellType = SA_TYPE
    /\ cells[1].signals[2] * INHIB_EFFECT_STRENGTH > 10
    /\ cells[1].growthRate = 0
    /\ cells[2].growthRate > 0

\* |a - b|
AbsDiff(a, b) == IF a >= b THEN a - b ELSE b - a

\* the grid cells of a PA index that hold an entry of the cell pid
CellsHolding(pa_grid, pid) ==
    {g \in DOMAIN pa_grid : \E e \in Range(pa_grid[g]) : e[3] = pid}

\* C39: GRID_SIZE is at least KILL_RADIUS; two cells of the population
\* handed to an update call of contact_kill.py whose squared distance is at
\* most KILL_RADIUS_SQ have grid indices that differ by at most 1 in each
\* axis, also at negative coordinates; and the index that the first pass of
\* the call builds, in whatever order it visits the cells, holds every PA
\* cell of the population in exactly one grid cell, that of its position,
\* holds nothing else, and gives the neighbour query of every SA cell every
\* PA cell within the kill radius.
C39_GridNeighbourhood ==
    (script = "contact_kill" /\ CONTACT_KILLING /\ STEP_COUNTER = 0) =>
       /\ GRID_SIZE >= KILL_RADIUS
       /\ \A a, b \in DOMAIN cells :
             Dist2(cells[a], cells[b]) <= KILL_RADIUS_SQ
               => \A ga \in {grid_index(cells[a].pos[1], cells[a].pos[2])} :
                  \A gb \in {grid_index(cells[b].pos[1], cells[b].pos[2])} :
                     AbsDiff(ga[1], gb[1]) <= 1 /\ AbsDiff(ga[2], gb[2]) <= 1
       /\ \A order \in Orders(DOMAIN cells) :
             \A p1 \in {first_pass(scan_start(cells), order)} :
                /\ \A g \in DOMAIN p1.pa_grid :
                      \A e \in Range(p1.pa_grid[g]) :
                         /\ e[3] \in DOMAIN cells
                         /\ cells[e[3]].cellType = 1
                         /\ <<e[1], e[2]>> = cells[e[3]].pos
                         /\ g = grid_index(e[1], e[2])
                /\ \A p \in DOMAIN cells :
                      cells[p].cellType = 1
                        => Cardinality(CellsHolding(p1.pa_grid, p)) = 1
                /\ \A sa, p \in DOMAIN cells :
                      (cells[sa].cellType = 0 /\ cells[p].cellType = 1
                         /\ Dist2(cells[sa], cells[p]) <= KILL_RADIUS_SQ)
                        => <<cells[p].pos[1], cells[p].pos[2], p>>
                             \in nearby_pa(p1.pa_grid, cells[sa].pos[1], cells[sa].pos[2])

\* a population handed to contact_kill.py with the SA cell at negative
\* coordinates and a PA cell at distance exactly KILL_RADIUS in the grid cell
\* next to it, across the origin
C39_Witness ==
    /\ script = "contact_kill"
    /\ CONTACT_KILLING
    /\ STEP_COUNTER = 0
    /\ cells[1].cellType = 0 /\ cells[2].cellType = 1
    /\ cells[1].pos = <<0 - 1, 0 - 1>>
    /\ cells[2].pos = <<1, 0 - 1>>
    /\ Dist2(cells[1], cells[2]) = KILL_RADIUS_SQ
    /\ grid_index(cells[1].pos[1], cells[1].pos[2]) = <<0 - 1, 0 - 1>>
    /\ grid_index(cells[2].pos[1], cells[2].pos[2]) = <<0, 0 - 1>>

====
